---- MODULE Spec2Model ----
(***************************************************************************)
(* QRApp back end: the request claim/complete state machine               *)
(* (app/api/router/request), the generic data-access layer it writes      *)
(* through (app/service/base.py) and the handlers of app/api/router/auth, *)
(* user, group, business, branch, area and service_unit.                  *)
(*                                                                         *)
(* Handlers are coroutines: a handler is cut into steps at its awaits of  *)
(* the database, and the steps of different calls interleave.  Handlers   *)
(* declared with a plain "def" (sign_out, refresh_token) and plain "def"  *)
(* background tasks run on worker threads, so their statements interleave *)
(* with everything else.                                                  *)
(***************************************************************************)
EXTENDS Integers, FiniteSets, Sequences, TLC

\* ------------------------------------------------------------------ bounds
\* Number of process_request calls issued in one behaviour.
MaxCalls == 4

\* Number of handler calls of the session operations in flight at once.
MaxAuthCalls == 2

\* Number of session operations (sign_in, sign_out, refresh_token,
\* reset_password, lock_unlock_user, lock_unlock_business) issued in one behaviour.
MaxOps == 3

\* Number of times the clock advances in one behaviour.
MaxTicks == 1

\* Business.expired_at of the tenants on record, in minutes after the start.
TenantExpiry == 20

\* Number of branch, area, service unit, user and business operations issued
\* in one behaviour.
MaxTreeOps == 3

\* Number of POST /request calls issued in one behaviour.
MaxCreates == 1

\* Number of line items of an ORDER request.
MaxItems == 2

\* Number of group and permission operations issued in one behaviour.
MaxGroupOps == 3

\* Number of whole-document update operations (put_user, put_me, put_business,
\* put_area and the like) issued in one behaviour.
MaxUpdateOps == 1

\* Length of the permission id lists a caller sends.
MaxPermList == 2

\* Number of process_request calls issued next to a delete_branch.
MaxClaimCalls == 2

\* Number of put_extend calls issued in one behaviour.
MaxExtendCalls == 3

\* Plan.period of the plan of the renewal order, in days.
PlanDays == 1

\* -------------------------------------------------------- program constants
\* Settings.ACCESS_TOKEN_EXPIRE_MINUTES and Settings.REFRESH_TOKEN_EXPIRE_MINUTES.
ACCESS_TOKEN_EXPIRE_MINUTES == 1800

REFRESH_TOKEN_EXPIRE_MINUTES == 3600

\* reset_password: expires_delta=timedelta(minutes=15).
RESET_EXPIRE_MINUTES == 15

\* ------------------------------------------------------------ static data
None == "none"

\* The user documents on record.  s1 and s2 are staff of branch br1 of tenant
\* b1, s3 is staff of another branch of b1; o2 is the owner and x1 a staff
\* member of tenant b2.
UserIds == {"admin", "owner", "s1", "s2", "s3", "o2", "x1"}

\* The ids of the users post_user and post_business insert.
NewUsers == {"s9", "o3"}

Users == UserIds \cup NewUsers

UserRole(u) ==
    CASE u = "admin" -> "Admin"
      [] u \in {"owner", "o2"} -> "BusinessOwner"
      [] OTHER -> "Staff"

UserBusiness(u) ==
    CASE u = "admin" -> None
      [] u \in {"o2", "x1"} -> "b2"
      [] OTHER -> "b1"

UserBranch(u) ==
    CASE u \in {"s1", "s2"} -> "br1"
      [] u = "s3" -> "br2"
      [] u = "x1" -> "br3"
      [] OTHER -> None

\* What login_required puts on req.state from the caller's access token.
StateOf(u) == [user_id |-> u, user_scope |-> UserBusiness(u), user_branch |-> UserBranch(u)]

RequestIds == {"r1"}
Calls == 1 .. MaxCalls
NoCall == 0
AuthCalls == 1 .. MaxAuthCalls

\* ------------------------------------------------------------------ state
VARIABLES
    requests,   \* committed Request documents: id -> [status, staff, business, branch, ver]
    wlock,      \* id -> the call whose open transaction has written the document, or NoCall
    ppc,        \* process_request call -> "idle", "done" or the step the call is to take next
    puser,      \* process_request call -> the caller
    preq,       \* process_request call -> the request id of the call
    psnap,      \* process_request call -> the Request document its transaction read
    pview,      \* process_request call -> the ids of the users its transaction sees
    pres,       \* process_request call -> its response
    pnote,      \* process_request call -> the users the call notified directly
    pbranch,    \* process_request call -> the Branch of its request as the call began (history)
    sessions,   \* SessionManager: the set of [key, token] entries on record
    available,  \* user id -> User.available
    businesses, \* business id -> [available, expired_at, owner, tax_code]
    now,        \* datetime.now(), in minutes
    ticks,      \* how often the clock has advanced
    ops,        \* how many session operations have been issued
    apc,        \* session handler call -> "idle" or the step it is at
    aloc,       \* session handler call -> the locals of the handler
    resp,       \* the last response of a session operation
    revoked,    \* user id -> the token on record when the user last signed out
    mail,       \* the access token of the last reset link mailed
    eorders,    \* committed ExtendOrder documents: id -> [status, business, plan]
    ex,         \* put_extend call -> the step and the locals
    eres,       \* put_extend call -> its response
    rx,         \* the request_extend call in flight and its last response
    uperm,      \* user id -> User.permissions, the direct permission references
    ugroup,     \* user id -> User.group, the group references
    groups,     \* committed Group documents: id -> Group.permissions
    gdirty,     \* documents written since the open delete_group transaction began
    bdirty,     \* lock_unlock_business call -> documents written since its transaction began
    dg,         \* the delete_group call in flight
    ag,         \* the add_to_group call in flight
    gc,         \* handler -> the call of the handler in flight
    gresp,      \* the last response of a group operation
    gops,       \* how many group operations have been issued
    branches,   \* committed Branch documents: the ids
    areas,      \* committed Area documents: id -> [branch, business]
    units,      \* committed ServiceUnit documents: id -> [area, branch, business]
    staff,      \* committed User documents: id -> [role, branch, business, permissions]
    events,     \* the creation events broadcast so far
    cr,         \* the POST /request call in flight
    cresp,      \* the last response of POST /request
    cops,       \* how many POST /request calls have been issued
    db,         \* the delete_branch call in flight
    da,         \* the delete_area call in flight
    pa,         \* the post_area call in flight
    pu,         \* the post_user call in flight
    pn,         \* the post_branch call in flight
    ub,         \* the update_branch call in flight
    ds,         \* the delete_service call in flight
    pb,         \* the post_business call in flight
    gone,       \* the documents deleted so far: [kind, id, parent, by]
    tresp,      \* the last response of a branch, area, unit, user or business operation
    tops        \* how many such operations have been issued

reqVars == <<requests, wlock, ppc, puser, preq, psnap, pview, pres, pnote, pbranch>>
extVars == <<eorders, ex, eres, rx>>
sessVars == <<sessions, now, ticks, ops, apc, aloc, resp, revoked, mail>>
authVars == <<sessions, available, businesses, now, ticks, ops, apc, aloc, resp, revoked, mail,
              extVars>>
groupVars == <<uperm, ugroup, groups, gdirty, bdirty, dg, ag, gc, gresp, gops>>
groupCtl == <<groups, dg, ag, gc, gresp, gops>>
placeDocs == <<branches, areas, units>>
treeDocs == <<branches, areas, units, staff>>
orderVars == <<events, cr, cresp, cops>>
lifeVars == <<wlock, ppc, puser, preq, psnap, pview, pres, pnote, pbranch>>
treeCalls == <<db, da, pa, pu, pn, ub, ds, pb>>
treeVars == <<treeCalls, gone, tresp, tops>>
dataVars == <<groupVars, treeDocs, orderVars, treeVars>>
vars == <<requests, wlock, ppc, puser, preq, psnap, pview, pres, pnote, pbranch,
          sessions, available, businesses, now, ticks, ops, apc, aloc, resp, revoked, mail,
          eorders, ex, eres, rx,
          dataVars>>

\* ------------------------------------------------------- request lifecycle
\* RequestStatus.next(): the successor state of the lifecycle.
NextStatus(s) ==
    CASE s = "WAITING" -> "IN_PROGRESS"
      [] s = "IN_PROGRESS" -> "COMPLETED"
      [] OTHER -> "COMPLETED"

\* The request as POST /request leaves it: WAITING, no staff.
NewRequest ==
    [status |-> "WAITING", staff |-> None, business |-> "b1", branch |-> "br1", ver |-> 0]

\* A process_request without scope checks.
ScopeError_none(st, doc) == None

\* process_request, lines 179-182: the scope checks on the document read.
ScopeError(st, doc) ==
    IF st.user_scope # doc.business THEN "404"
    ELSE IF st.user_branch # None /\ doc.branch # st.user_branch THEN "403"
    ELSE None

\* Mutants of AlreadyHandled: the assignee test dropped; the COMPLETED test dropped.
AlreadyHandled_anyStaff(doc, u) == doc.status = "COMPLETED"

AlreadyHandled_reopen(doc, u) == doc.status # "WAITING" /\ doc.staff # u

\* process_request, lines 184-186: the request was already handled.
AlreadyHandled(doc, u) ==
    doc.status = "COMPLETED" \/ (doc.status # "WAITING" /\ doc.staff # u)

\* Mutant of Updated: the staff field is not written.
Updated_noStaff(doc, u) == [doc EXCEPT !.status = NextStatus(doc.status)]

\* process_request, lines 189-196 with Service.update: the document saved.
Updated(doc, u) ==
    [doc EXCEPT !.status = NextStatus(doc.status), !.staff = u]

\* Mutant of WriteConflict: the save is a plain write outside any transaction.
WriteConflict_none(c, r) == FALSE

\* Service.transaction with Service.update's save: a write inside a transaction
\* fails with a write conflict (a PyMongoError) when the document was written
\* after the transaction's snapshot or is written by another open transaction.
WriteConflict(c, r) ==
    \/ wlock[r] \notin {NoCall, c}
    \/ requests[r].ver # psnap[c].ver

\* The callers of the lifecycle specification: the owner and the staff of the
\* request's branch, a staff member of another branch and one of another tenant.
ProcessCallers == {"owner", "s1", "s2", "s3", "x1"}

\* Mutant of Recipients: the message is broadcast without a user filter.
Recipients_all(user_id) == ProcessCallers

\* Line 187: manager.broadcast(..., user_ids=[req.state.user_id]).
Recipients(user_id) == {user_id}

\* manager.broadcast with user_ids: the message goes to the users named.
Broadcast(user_ids) == user_ids

\* A process_request call starts in the first unused slot.
Unused(c) == ppc[c] = "idle" /\ \A d \in Calls : d < c => ppc[d] # "idle"

\* Lines 175-182: the transaction is opened and the request is read in it;
\* the scope checks run on the document read, and a caller out of scope is
\* answered 404 or 403.  The read is the first operation of the transaction:
\* what the transaction reads from now on is the database as it is at this
\* step, of which the request and the users on record are kept, with the
\* Branch document of the request: on record, being deleted by a
\* delete_branch in flight, or deleted.
ProcessBegin(c, u, r) ==
    /\ Unused(c)
    /\ pbranch' = [pbranch EXCEPT ![c] =
                     IF requests[r].branch \notin branches THEN "deleted"
                     ELSE IF db.id = requests[r].branch THEN "deleting"
                     ELSE "present"]
    /\ puser' = [puser EXCEPT ![c] = u]
    /\ preq' = [preq EXCEPT ![c] = r]
    /\ psnap' = [psnap EXCEPT ![c] = requests[r]]
    /\ pview' = [pview EXCEPT ![c] = DOMAIN staff]
    /\ LET err == ScopeError(StateOf(u), requests[r]) IN
       IF err # None
       THEN /\ ppc' = [ppc EXCEPT ![c] = "done"]
            /\ pres' = [pres EXCEPT ![c] = err]
       ELSE /\ ppc' = [ppc EXCEPT ![c] = "user"]
            /\ UNCHANGED pres
    /\ UNCHANGED <<requests, wlock, pnote>>
    /\ UNCHANGED <<authVars, dataVars>>

\* Lines 183-186 and 189-194: the caller's User document is read in the
\* transaction and the status test runs on the request read at line 176.  A
\* request already handled sends the call to the broadcast, any other one to
\* Service.update; nothing is sent or written in this step.  userService.find
\* answers None for an account the transaction does not see, and the handler
\* dereferences it (user.id at line 185, user.to_ref() at line 193) unless
\* the request is COMPLETED.
ProcessUser(c) ==
    /\ ppc[c] = "user"
    /\ IF puser[c] \notin pview[c] /\ psnap[c].status # "COMPLETED"
       THEN /\ ppc' = [ppc EXCEPT ![c] = "done"]
            /\ pres' = [pres EXCEPT ![c] = "500"]
       ELSE IF AlreadyHandled(psnap[c], puser[c])
       THEN /\ ppc' = [ppc EXCEPT ![c] = "notify"]
            /\ UNCHANGED pres
       ELSE /\ ppc' = [ppc EXCEPT ![c] = "get"]
            /\ UNCHANGED pres
    /\ UNCHANGED <<requests, wlock, puser, preq, psnap, pview, pnote, pbranch>>
    /\ UNCHANGED <<authVars, dataVars>>

\* Line 187: the awaited manager.broadcast to the caller.
ProcessNotify(c) ==
    /\ ppc[c] = "notify"
    /\ ppc' = [ppc EXCEPT ![c] = "notified"]
    /\ pnote' = [pnote EXCEPT ![c] = Broadcast(Recipients(puser[c]))]
    /\ UNCHANGED <<requests, wlock, puser, preq, psnap, pview, pres, pbranch>>
    /\ UNCHANGED <<authVars, dataVars>>

\* Line 188: after the broadcast the transaction, which wrote nothing, ends as
\* its block is left, and the call answers false.
ProcessReturn(c) ==
    /\ ppc[c] = "notified"
    /\ ppc' = [ppc EXCEPT ![c] = "done"]
    /\ pres' = [pres EXCEPT ![c] = "false"]
    /\ UNCHANGED <<requests, wlock, puser, preq, psnap, pview, pnote, pbranch>>
    /\ UNCHANGED <<authVars, dataVars>>

\* Service.update lines 102-104 (base.py): the document is read again, in the
\* transaction, which sees the request as the read of line 176 saw it.
ProcessGet(c) ==
    /\ ppc[c] = "get"
    /\ ppc' = [ppc EXCEPT ![c] = "update"]
    /\ UNCHANGED <<requests, wlock, puser, preq, psnap, pview, pres, pnote, pbranch>>
    /\ UNCHANGED <<authVars, dataVars>>

\* Service.update lines 105-109 (base.py): the document is saved in the
\* transaction with the next status of the request read at line 176 and the
\* caller as staff; a write conflict aborts the transaction.
ProcessUpdate(c) ==
    /\ ppc[c] = "update"
    /\ IF WriteConflict(c, preq[c])
       THEN /\ ppc' = [ppc EXCEPT ![c] = "done"]
            /\ pres' = [pres EXCEPT ![c] = "500"]
            /\ UNCHANGED wlock
       ELSE /\ ppc' = [ppc EXCEPT ![c] = "commit"]
            /\ wlock' = [wlock EXCEPT ![preq[c]] = c]
            /\ UNCHANGED pres
    /\ UNCHANGED <<requests, puser, preq, psnap, pview, pnote, pbranch>>
    /\ UNCHANGED <<authVars, dataVars>>

\* Line 197: the transaction commits as its block is left, and the call
\* answers true.
ProcessCommit(c) ==
    /\ ppc[c] = "commit"
    /\ requests' = [requests EXCEPT ![preq[c]] =
                       [Updated(psnap[c], puser[c]) EXCEPT !.ver = requests[preq[c]].ver + 1]]
    /\ wlock' = [wlock EXCEPT ![preq[c]] = NoCall]
    /\ ppc' = [ppc EXCEPT ![c] = "done"]
    /\ pres' = [pres EXCEPT ![c] = "true"]
    /\ UNCHANGED <<puser, preq, psnap, pview, pnote, pbranch>>
    /\ UNCHANGED <<authVars, dataVars>>

\* ------------------------------------------- permission and group documents
\* The Permission documents in collection order.  MongoDB.initialize creates
\* one per action and document class, and only when no document has the code.
PermOrder == <<"p1", "p2", "p3">>

Perms == {"p1", "p2", "p3"}

PermCode(p) ==
    CASE p = "p1" -> "view.order"
      [] p = "p2" -> "create.order"
      [] OTHER -> "view.plan"

\* The action and the document name of the code.
PermAction(p) == IF p = "p2" THEN "create" ELSE "view"

PermDocument(p) == IF p = "p3" THEN "plan" ELSE "order"

\* UserService.insert line 25: an Admin is created with every permission
\* whose code ends in one of the seven names.
AdminPermissions ==
    SelectSeq(PermOrder,
              LAMBDA p : PermDocument(p) \in {"businesstype", "business", "plan", "group",
                                               "user", "extendorder", "permission"})

\* UserService.insert line 33: a BusinessOwner is created with every permission
\* whose code does not end in .businesstype, .business, .plan or .permission.
OwnerPermissions ==
    SelectSeq(PermOrder,
              LAMBDA p : PermDocument(p) \notin {"businesstype", "business", "plan", "permission"})

\* UserService.insert line 41: a Staff user is created with the permissions
\* whose code begins with view and ends in one of the seven names.
StaffPermissions ==
    SelectSeq(PermOrder,
              LAMBDA p : PermAction(p) = "view"
                         /\ PermDocument(p) \in {"area", "branch", "order", "category",
                                                 "subcategory", "serviceunit", "product"})

\* The permissions UserService.insert gives a user of the role.
InsertPermissions(role) ==
    CASE role = "Admin" -> AdminPermissions
      [] role = "BusinessOwner" -> OwnerPermissions
      [] OTHER -> StaffPermissions

\* The Group documents in collection order, and the users the group
\* operations are applied to.  Groups g9, g8 and g7 are the ones post_group
\* inserts for a caller of tenant b1, for an Admin and for a caller of b2.
GroupOrder == <<"g1", "g2", "gx", "g9", "g8", "g7">>

GroupIds == {"g1", "g2"}

\* Group.business: gx is a group of tenant b2.
GroupBusiness(g) ==
    CASE g \in {"gx", "g7"} -> "b2"
      [] g = "g8" -> None
      [] OTHER -> "b1"

\* PydanticObjectId(request.state.user_scope): without a scope a new id, the
\* id of no business.
ScopeId(user_scope) == IF user_scope = None THEN "fresh" ELSE user_scope

GroupMembers == {"s1", "s2"}

GroupCallers == {"owner", "admin"}

Range(s) == {s[i] : i \in DOMAIN s}

\* The id lists of a request body.
PermLists == UNION {[1 .. n -> Perms] : n \in 0 .. MaxPermList}

\* A find_many that returns one document per element of the id list.
FindPermissions_each(ids) == ids

\* permissionService.find_many({"_id": {"$in": ids}}): every Permission
\* document whose id is in the list, once, in collection order.
FindPermissions(ids) == SelectSeq(PermOrder, LAMBDA p : p \in Range(ids))

\* groupService.find_many({"_id": {"$in": user_group}}).
FindGroups(G, user_group) == SelectSeq(GroupOrder, LAMBDA g : g \in DOMAIN G /\ g \in user_group)

\* sign_in lines 69-76: the permission references of the groups found.
RECURSIVE GroupPermissions(_, _)
GroupPermissions(G, gs) ==
    IF gs = <<>> THEN <<>> ELSE G[Head(gs)] \o GroupPermissions(G, Tail(gs))

\* sign_in lines 64-84 over one reading of the documents: the codes put into
\* the payload.
UserPermissions(user_permissions, user_group, G) ==
    LET ids == IF user_group # {}
               THEN user_permissions \o GroupPermissions(G, FindGroups(G, user_group))
               ELSE user_permissions
        found == FindPermissions(ids)
    IN [i \in DOMAIN found |-> PermCode(found[i])]

\* ---------------------------------------------------------- user documents
\* A User document is kept in four parts: available, permissions, group and
\* the fields fixed at creation.  The users post_user and post_business create
\* take no part in the session and group operations.
NoRec == [role |-> None, branch |-> None, business |-> None, permissions |-> {}]

NoDoc == [found |-> FALSE, available |-> FALSE, permissions |-> <<>>, group |-> {}, rec |-> NoRec]

\* userService.find / User.get: the document as it is now, or nothing.
UserDoc(u) ==
    IF u \in DOMAIN staff
    THEN [found |-> TRUE, available |-> available[u], permissions |-> uperm[u],
          group |-> ugroup[u], rec |-> staff[u]]
    ELSE NoDoc

\* Service.update line 109, Document.save: every field of the document in hand
\* is written, and a document that is gone is inserted again.
WriteUser(u, doc) ==
    /\ available' = [available EXCEPT ![u] = doc.available]
    /\ uperm' = [uperm EXCEPT ![u] = doc.permissions]
    /\ ugroup' = [ugroup EXCEPT ![u] = doc.group]
    /\ staff' = [x \in DOMAIN staff \cup {u} |-> IF x = u THEN doc.rec ELSE staff[x]]

\* The documents an open lock_unlock_business transaction has written: a
\* write of another client waits, a write of another transaction conflicts.
UserLocked(u) == \E d \in AuthCalls : apc[d] = "lb_commit" /\ aloc[d].user = u

BusinessLocked(b) == \E d \in AuthCalls : apc[d] \in {"lb_owner", "lb_commit"} /\ aloc[d].bus = b

\* A committed write of documents is seen by every open transaction as
\* a write after its snapshot.
TouchedBusiness(written) ==
    [d \in AuthCalls |-> IF apc[d] \in {"lb_business", "lb_owner"} THEN bdirty[d] \cup written ELSE {}]

Touch(written) ==
    /\ gdirty' = IF dg.pc = "open" THEN gdirty \cup written ELSE gdirty
    /\ bdirty' = TouchedBusiness(written)

\* ------------------------------------------------------------------ tokens
\* The users of the session operations, and a username no account has.
AuthUsers == {"admin", "owner"}
Nobody == "nobody"

\* A token is the text a key has signed: the JSON object of its claims, kept
\* as the sequence of its members.
NoToken == [key |-> None, text |-> <<>>]

\* A string that is no token of this server.
Garbage == [key |-> "garbage", text |-> <<>>]

\* sign_in lines 61-63 and 85-92, reset_password lines 146-148 and 170-177:
\* the payload of the account's tokens, from the user document read and the
\* permission codes the handler has resolved.
Payload(u, rec, user_permissions) ==
    [user_id |-> u, user_scope |-> rec.business, user_branch |-> rec.branch,
     user_role |-> rec.role, user_permissions |-> user_permissions]

\* The JSON value of a claim: the permission codes are a list, the expiry is
\* a number, the others are a string or None.
JsonValue(name, v) ==
    IF name = "user_permissions" THEN <<"array", v>>
    ELSE IF name = "exp" THEN <<"number", v>>
    ELSE IF v = None THEN <<"null">>
    ELSE <<"string", v>>

\* The JSON object of a dict, member after member: the keys of a payload in
\* the order the handlers build it, with the expiry claim encode adds last.
Dumps(d) ==
    LET order == <<"user_id", "user_scope", "user_branch", "user_role",
                   "user_permissions", "exp">>
        names == SelectSeq(order, LAMBDA n : n \in DOMAIN d)
    IN [i \in DOMAIN names |-> <<names[i], JsonValue(names[i], d[names[i]])>>]

\* The dict a JSON object is parsed to: null is read as None, any other
\* value as what it holds.
Loads(text) ==
    [n \in {text[i][1] : i \in DOMAIN text} |->
        LET j == text[CHOOSE i \in DOMAIN text : text[i][1] = n][2]
        IN IF j[1] = "null" THEN None ELSE j[2]]

\* ACCESS_JWT.encode / REFRESH_JWT.encode: the payload with the claim exp,
\* delta minutes from now, signed with the key of the kind.
Encode(key, payload, t, delta) ==
    [key |-> key,
     text |-> Dumps([n \in DOMAIN payload \cup {"exp"} |->
                        IF n = "exp" THEN t + delta ELSE payload[n]])]

\* The claims of the text of a token.
Claims(tok) == Loads(tok.text)

\* The user a token names, if it names one.
Subject(tok) == IF "user_id" \in DOMAIN Claims(tok) THEN Claims(tok).user_id ELSE None

\* Mutant of PopExp: the payload is resolved anew from the documents of the
\* user of the token.
PopExp_resolved(payload) ==
    Payload(payload.user_id, UserDoc(payload.user_id).rec,
            UserPermissions(uperm[payload.user_id], ugroup[payload.user_id], groups))

\* refresh_token line 123, payload.pop("exp"): the dict without the key.
PopExp(payload) == [n \in DOMAIN payload \ {"exp"} |-> payload[n]]

\* REFRESH_JWT.decode: InvalidToken for a bad signature, ExpiredToken when the
\* clock is past exp; otherwise the claims of the token are returned.
Decode(key, tok, t) ==
    IF tok.key # key THEN "InvalidToken"
    ELSE IF t > Claims(tok).exp THEN "ExpiredToken"
    ELSE "ok"

\* ---------------------------------------------------------- SessionManager
\* SessionManager.sign_in: the value of the key is overwritten.
SessionSignIn(S, k, tok) == {e \in S : e.key # k} \cup {[key |-> k, token |-> tok]}

\* SessionManager.get: the value of the key, or nothing.
SessionGet(S, k) ==
    IF \E e \in S : e.key = k THEN (CHOOSE e \in S : e.key = k).token ELSE NoToken

\* SessionManager.delete: the key is removed.
SessionDelete(S, k) == {e \in S : e.key # k}

\* --------------------------------------------------------------- responses
\* The answer of an operation: its status code and, for sign_in and
\* refresh_token, the refresh token of the Token answered.
RespondPair(op, u, outcome, access, refresh) ==
    resp' = [op |-> op, user |-> u, outcome |-> outcome, access |-> access, refresh |-> refresh]

Respond(op, u, outcome, refresh) == RespondPair(op, u, outcome, NoToken, refresh)

\* An operation is issued.
Issue == ops < MaxOps /\ ops' = ops + 1

\* The coroutines share one event loop: between two awaits a coroutine is not
\* interleaved with another coroutine, only with the worker threads.  sign_in
\* does not await between putting its token on record and answering.
LoopFree == \A c \in AuthCalls : apc[c] # "si_return"

\* A handler call starts in the first free slot.
Free(c) == apc[c] = "idle" /\ \A d \in AuthCalls : d < c => apc[d] # "idle"

NoLocals ==
    [user |-> None, access |-> NoToken, refresh |-> NoToken, flag |-> FALSE,
     doc |-> NoDoc, ids |-> <<>>, bus |-> None]

\* The tokens a client can present: those on record, the last one answered,
\* the ones signed out, and a string that is no token.
TokensAround ==
    ({e.token : e \in sessions} \cup {revoked[u] : u \in AuthUsers}
        \cup {resp.refresh, Garbage}) \ {NoToken}

\* What the session operations leave alone: the documents of the other
\* collections and the calls of the other routers.
authFrame == <<reqVars, orderVars, treeVars, extVars>>

\* ----------------------------------------------------------------- sign_in
\* Mutant of SignInRejection: the locked-account test dropped.
SignInRejection_noLock(u, pw_ok) ==
    IF u \notin DOMAIN staff \/ ~pw_ok THEN "401"
    ELSE None

\* sign_in, lines 48-55: the credentials and the account lock, on the user
\* document read at line 48.
SignInRejection(u, pw_ok) ==
    IF u \notin DOMAIN staff \/ ~pw_ok THEN "401"
    ELSE IF ~available[u] THEN "403"
    ELSE None

\* Lines 64-69 and 79: the handler reads the groups only of a user who has some.
AfterUser(doc, groups_pc, store_pc) == IF doc.group # {} THEN groups_pc ELSE store_pc

\* Lines 69-78: the permission references of the groups found are appended to
\* the user's own.
WithGroups(user_permissions, user_group, G) ==
    user_permissions \o GroupPermissions(G, FindGroups(G, user_group))

\* Lines 80-84: the codes of the Permission documents found for the references.
Codes(ids) == LET found == FindPermissions(ids) IN [i \in DOMAIN found |-> PermCode(found[i])]

\* Mutant of SignInSession: the access token is put on record.
SignInSession_access(S, user_id, access_token, refresh_token) ==
    SessionSignIn(S, user_id, access_token)

\* sign_in, line 95: SessionManager.sign_in(user_id, refresh_token).
SignInSession(S, user_id, access_token, refresh_token) ==
    SessionSignIn(S, user_id, refresh_token)

\* Lines 48-56: the user document is read and kept; the rest of the handler
\* works on this copy.
SignInCheck(c, u, pw_ok) ==
    /\ Issue
    /\ LoopFree
    /\ Free(c)
    /\ LET rej == SignInRejection(u, pw_ok) IN
       IF rej # None
       THEN /\ Respond("sign_in", u, rej, NoToken)
            /\ UNCHANGED <<apc, aloc>>
       ELSE /\ apc' = [apc EXCEPT ![c] =
                          IF staff[u].role \in {"BusinessOwner", "Staff"}
                          THEN "si_business"
                          ELSE AfterUser(UserDoc(u), "si_groups", "si_store")]
            /\ aloc' = [aloc EXCEPT ![c] =
                           [NoLocals EXCEPT !.user = u, !.doc = UserDoc(u), !.ids = uperm[u]]]
            /\ UNCHANGED resp
    /\ UNCHANGED <<sessions, available, businesses, now, ticks, revoked>>
    /\ UNCHANGED <<reqVars, dataVars, mail, extVars>>

\* Lines 57-59: the business of the user is read; a missing one is
\* dereferenced (500), an expired one is refused.
SignInBusiness(c) ==
    /\ apc[c] = "si_business"
    /\ LoopFree
    /\ LET u == aloc[c].user
           b == aloc[c].doc.rec.business
       IN IF b \notin DOMAIN businesses \/ businesses[b].expired_at < now
          THEN /\ Respond("sign_in", u,
                          IF b \notin DOMAIN businesses THEN "500" ELSE "403", NoToken)
               /\ apc' = [apc EXCEPT ![c] = "idle"]
               /\ aloc' = [aloc EXCEPT ![c] = NoLocals]
          ELSE /\ apc' = [apc EXCEPT ![c] = AfterUser(aloc[c].doc, "si_groups", "si_store")]
               /\ UNCHANGED <<aloc, resp>>
    /\ UNCHANGED <<sessions, available, businesses, now, ticks, revoked>>
    /\ UNCHANGED <<reqVars, dataVars, mail, extVars>>
    /\ UNCHANGED ops

\* Lines 69-78: the groups of the user document are read as they are now.
SignInGroups(c) ==
    /\ apc[c] = "si_groups"
    /\ LoopFree
    /\ aloc' = [aloc EXCEPT ![c].ids =
                   WithGroups(aloc[c].doc.permissions, aloc[c].doc.group, groups)]
    /\ apc' = [apc EXCEPT ![c] = "si_store"]
    /\ UNCHANGED <<sessions, available, businesses, now, ticks, resp, revoked>>
    /\ UNCHANGED <<reqVars, dataVars, mail, extVars>>
    /\ UNCHANGED ops

\* Lines 80-95: the Permission documents are read, both tokens are encoded and
\* the refresh token is put on record.
SignInStore(c) ==
    /\ apc[c] = "si_store"
    /\ LoopFree
    /\ LET u == aloc[c].user
           payload == Payload(u, aloc[c].doc.rec, Codes(aloc[c].ids))
           access_token == Encode("access", payload, now, ACCESS_TOKEN_EXPIRE_MINUTES)
           refresh_token == Encode("refresh", payload, now, REFRESH_TOKEN_EXPIRE_MINUTES)
       IN /\ sessions' = SignInSession(sessions, u, access_token, refresh_token)
          /\ aloc' = [aloc EXCEPT ![c].access = access_token, ![c].refresh = refresh_token]
          /\ revoked' = [revoked EXCEPT ![u] = NoToken]
    /\ apc' = [apc EXCEPT ![c] = "si_return"]
    /\ UNCHANGED <<available, businesses, now, ticks, resp>>
    /\ UNCHANGED <<reqVars, dataVars, mail, extVars>>
    /\ UNCHANGED ops

\* Lines 96-101: the answer carries SessionManager.get(user_id); Token refuses
\* a missing refresh token.
SignInReturn(c) ==
    /\ apc[c] = "si_return"
    /\ LET on_record == SessionGet(sessions, aloc[c].user) IN
       IF on_record = NoToken
       THEN Respond("sign_in", aloc[c].user, "422", NoToken)
       ELSE RespondPair("sign_in", aloc[c].user, "200", aloc[c].access, on_record)
    /\ apc' = [apc EXCEPT ![c] = "idle"]
    /\ aloc' = [aloc EXCEPT ![c] = NoLocals]
    /\ UNCHANGED <<sessions, available, businesses, now, ticks, revoked>>
    /\ UNCHANGED <<reqVars, dataVars, mail, extVars>>
    /\ UNCHANGED ops

\* ---------------------------------------------------------------- sign_out
\* Mutant of SignOutMismatch: the presented token is not compared.
SignOutMismatch_never(S, user_id, refresh_token) == FALSE

\* sign_out, line 112.
SignOutMismatch(S, user_id, refresh_token) == SessionGet(S, user_id) # refresh_token

\* Lines 112-113.
SignOutCheck(c, u, tok) ==
    /\ Issue
    /\ Free(c)
    /\ IF SignOutMismatch(sessions, u, tok)
       THEN /\ Respond("sign_out", u, "403", NoToken)
            /\ UNCHANGED <<apc, aloc>>
       ELSE /\ apc' = [apc EXCEPT ![c] = "so_delete"]
            /\ aloc' = [aloc EXCEPT ![c] = [NoLocals EXCEPT !.user = u, !.refresh = tok]]
            /\ UNCHANGED resp
    /\ UNCHANGED <<sessions, available, businesses, now, ticks, revoked>>
    /\ UNCHANGED <<reqVars, dataVars, mail, extVars>>

\* Line 114.
SignOutDelete(c) ==
    /\ apc[c] = "so_delete"
    /\ sessions' = SessionDelete(sessions, aloc[c].user)
    /\ apc' = [apc EXCEPT ![c] = "so_verify"]
    /\ UNCHANGED <<available, businesses, now, ticks, aloc, resp, revoked>>
    /\ UNCHANGED <<reqVars, dataVars, mail, extVars>>
    /\ UNCHANGED ops

\* Lines 115-117.
SignOutVerify(c) ==
    /\ apc[c] = "so_verify"
    /\ IF SessionGet(sessions, aloc[c].user) # NoToken
       THEN /\ Respond("sign_out", aloc[c].user, "403", NoToken)
            /\ UNCHANGED revoked
       ELSE /\ Respond("sign_out", aloc[c].user, "200", NoToken)
            /\ revoked' = [revoked EXCEPT ![aloc[c].user] = aloc[c].refresh]
    /\ apc' = [apc EXCEPT ![c] = "idle"]
    /\ aloc' = [aloc EXCEPT ![c] = NoLocals]
    /\ UNCHANGED <<sessions, available, businesses, now, ticks>>
    /\ UNCHANGED <<reqVars, dataVars, mail, extVars>>
    /\ UNCHANGED ops

\* ----------------------------------------------------------- refresh_token
\* refresh_token, lines 122-125: the refresh token is decoded and a new access
\* token with its payload is encoded; the session on record is not read.
RefreshToken(tok) ==
    /\ Issue
    /\ LET outcome == IF Decode("refresh", tok, now) = "ok" THEN "200" ELSE "401" IN
       IF outcome = "200"
       THEN RespondPair("refresh", Subject(tok), "200",
                        Encode("access", PopExp(Claims(tok)), now, ACCESS_TOKEN_EXPIRE_MINUTES),
                        tok)
       ELSE Respond("refresh", Subject(tok), outcome, NoToken)
    /\ UNCHANGED <<sessions, available, businesses, now, ticks, apc, aloc, revoked>>
    /\ UNCHANGED <<reqVars, dataVars, mail, extVars>>

\* ---------------------------------------------------------- reset_password
\* Mutant of ResetSession: the token is put on record next to the one there.
ResetSession_add(S, user_id, access_token, refresh_token) ==
    S \cup {[key |-> user_id, token |-> refresh_token]}

\* reset_password, line 186: SessionManager.sign_in(user_id, refresh_token).
ResetSession(S, user_id, access_token, refresh_token) ==
    SessionSignIn(S, user_id, refresh_token)

\* Lines 142-149: the account is read and kept; no account is answered 404.
ResetFind(c, u) ==
    /\ Issue
    /\ LoopFree
    /\ Free(c)
    /\ IF u \notin DOMAIN staff
       THEN /\ Respond("reset_password", u, "404", NoToken)
            /\ UNCHANGED <<apc, aloc>>
       ELSE /\ apc' = [apc EXCEPT ![c] = AfterUser(UserDoc(u), "rp_groups", "rp_store")]
            /\ aloc' = [aloc EXCEPT ![c] =
                           [NoLocals EXCEPT !.user = u, !.doc = UserDoc(u), !.ids = uperm[u]]]
            /\ UNCHANGED resp
    /\ UNCHANGED <<sessions, available, businesses, now, ticks, revoked>>
    /\ UNCHANGED <<reqVars, dataVars, mail, extVars>>

\* Lines 151-163: the groups of the account read are read as they are now.
ResetGroups(c) ==
    /\ apc[c] = "rp_groups"
    /\ LoopFree
    /\ aloc' = [aloc EXCEPT ![c].ids =
                   WithGroups(aloc[c].doc.permissions, aloc[c].doc.group, groups)]
    /\ apc' = [apc EXCEPT ![c] = "rp_store"]
    /\ UNCHANGED <<sessions, available, businesses, now, ticks, resp, revoked>>
    /\ UNCHANGED <<reqVars, dataVars, mail, extVars>>
    /\ UNCHANGED ops

\* Lines 165-197: the Permission documents are read, a 15-minute pair is
\* encoded, the refresh token is put on record and the message is built.
ResetStore(c) ==
    /\ apc[c] = "rp_store"
    /\ LoopFree
    /\ LET u == aloc[c].user
           payload == Payload(u, aloc[c].doc.rec, Codes(aloc[c].ids))
           access_token == Encode("access", payload, now, RESET_EXPIRE_MINUTES)
           refresh_token == Encode("refresh", payload, now, RESET_EXPIRE_MINUTES)
       IN /\ sessions' = ResetSession(sessions, u, access_token, refresh_token)
          /\ aloc' = [aloc EXCEPT ![c].access = access_token, ![c].refresh = refresh_token]
          /\ revoked' = [revoked EXCEPT ![u] = NoToken]
    /\ apc' = [apc EXCEPT ![c] = "rp_send"]
    /\ UNCHANGED <<available, businesses, now, ticks, resp>>
    /\ UNCHANGED <<reqVars, dataVars, mail, extVars>>
    /\ UNCHANGED ops

\* Lines 198-199: the link with the access token is mailed and the call
\* answers.
ResetSend(c) ==
    /\ apc[c] = "rp_send"
    /\ LoopFree
    /\ mail' = aloc[c].access
    /\ Respond("reset_password", aloc[c].user, "200", NoToken)
    /\ apc' = [apc EXCEPT ![c] = "idle"]
    /\ aloc' = [aloc EXCEPT ![c] = NoLocals]
    /\ UNCHANGED <<sessions, available, businesses, now, ticks, revoked>>
    /\ UNCHANGED <<reqVars, dataVars, extVars>>
    /\ UNCHANGED ops

\* Line 198: SMTP.send_message raises; nothing is mailed and the token put on
\* record at line 186 stays.
ResetSendFail(c) ==
    /\ apc[c] = "rp_send"
    /\ LoopFree
    /\ Respond("reset_password", aloc[c].user, "500", NoToken)
    /\ apc' = [apc EXCEPT ![c] = "idle"]
    /\ aloc' = [aloc EXCEPT ![c] = NoLocals]
    /\ UNCHANGED <<sessions, available, businesses, now, ticks, revoked>>
    /\ UNCHANGED <<reqVars, dataVars, mail, extVars>>
    /\ UNCHANGED ops

\* -------------------------------------------------------- lock_unlock_user
\* lock_unlock_user, line 286: the caller has no scope (an Admin) or the scope
\* of the user read.  A user without a business is dereferenced.
LockScope(caller, target) ==
    IF StateOf(caller).user_scope = None THEN "ok"
    ELSE IF staff[target].business = None THEN "500"
    ELSE IF StateOf(caller).user_scope = staff[target].business THEN "ok"
    ELSE "403"

\* Lines 282-286: the user is read and the scope of the caller is checked.
LockUserFind(c, caller, target) ==
    /\ Issue
    /\ LoopFree
    /\ Free(c)
    /\ LET outcome == IF target \notin DOMAIN staff THEN "404" ELSE LockScope(caller, target) IN
       IF outcome # "ok"
       THEN /\ Respond("lock_unlock_user", target, outcome, NoToken)
            /\ UNCHANGED <<apc, aloc>>
       ELSE /\ apc' = [apc EXCEPT ![c] = "lu_get"]
            /\ aloc' = [aloc EXCEPT ![c] =
                           [NoLocals EXCEPT !.user = target, !.flag = available[target]]]
            /\ UNCHANGED resp
    /\ UNCHANGED <<sessions, available, businesses, now, ticks, revoked>>
    /\ UNCHANGED <<reqVars, dataVars, mail, extVars>>

\* Line 287 with Service.update line 102: the document is read again.
LockUserGet(c) ==
    /\ apc[c] = "lu_get"
    /\ LoopFree
    /\ aloc' = [aloc EXCEPT ![c].doc = UserDoc(aloc[c].user)]
    /\ apc' = [apc EXCEPT ![c] = "lu_update"]
    /\ UNCHANGED <<sessions, available, businesses, now, ticks, resp, revoked>>
    /\ UNCHANGED <<reqVars, dataVars, mail, extVars>>
    /\ UNCHANGED ops

\* Lines 287-294 with Service.update lines 103-110: the document read is saved
\* whole with available as the negation of the value read at line 282 (no
\* document, no save), the removal of the session is queued as a background
\* task and the answer is sent.
LockUserUpdate(c) ==
    /\ apc[c] = "lu_update"
    /\ LoopFree
    /\ LET u == aloc[c].user IN
       IF aloc[c].doc.found
       THEN /\ ~UserLocked(u)
            /\ WriteUser(u, [aloc[c].doc EXCEPT !.available = ~aloc[c].flag])
            /\ Touch({u})
       ELSE UNCHANGED <<available, uperm, ugroup, staff, gdirty, bdirty>>
    /\ Respond("lock_unlock_user", aloc[c].user, "200", NoToken)
    /\ apc' = [apc EXCEPT ![c] = "lu_task"]
    /\ UNCHANGED <<sessions, businesses, now, ticks, aloc, revoked, mail, ops>>
    /\ UNCHANGED <<authFrame, groupCtl, placeDocs>>

\* Lines 279-280: the background task remove_session.
LockUserRemoveSession(c) ==
    /\ apc[c] = "lu_task"
    /\ sessions' = SessionDelete(sessions, aloc[c].user)
    /\ apc' = [apc EXCEPT ![c] = "idle"]
    /\ aloc' = [aloc EXCEPT ![c] = NoLocals]
    /\ UNCHANGED <<available, businesses, now, ticks, resp, revoked>>
    /\ UNCHANGED <<reqVars, dataVars, mail, extVars>>
    /\ UNCHANGED ops

\* ---------------------------------------------------- lock_unlock_business
\* Lines 202-205: the transaction begins and reads the business.
LockBusinessFind(c, b) ==
    /\ Issue
    /\ LoopFree
    /\ Free(c)
    /\ IF b \notin DOMAIN businesses
       THEN /\ Respond("lock_unlock_business", None, "404", NoToken)
            /\ UNCHANGED <<apc, aloc, bdirty>>
       ELSE /\ apc' = [apc EXCEPT ![c] = "lb_business"]
            /\ aloc' = [aloc EXCEPT ![c] =
                           [NoLocals EXCEPT !.bus = b, !.flag = businesses[b].available,
                                            !.user = businesses[b].owner]]
            /\ bdirty' = [bdirty EXCEPT ![c] = {}]
            /\ UNCHANGED resp
    /\ UNCHANGED <<sessions, available, businesses, now, ticks, revoked, mail>>
    /\ UNCHANGED <<authFrame, groupCtl, treeDocs, uperm, ugroup, gdirty>>

\* Service.transaction lines 165-166: the block has raised; the transaction
\* aborts and nothing it wrote is committed.
LockBusinessAbort(c) ==
    /\ Respond("lock_unlock_business", aloc[c].user, "500", NoToken)
    /\ apc' = [apc EXCEPT ![c] = "idle"]
    /\ aloc' = [aloc EXCEPT ![c] = NoLocals]
    /\ bdirty' = [bdirty EXCEPT ![c] = {}]

\* What a step inside the transaction leaves alone.
lockFrame ==
    <<reqVars, extVars, treeDocs, orderVars, treeVars, uperm, ugroup, gdirty, groupCtl>>

\* Lines 206-212 with Service.update: the business is saved in the transaction
\* with available negated; the write is pending until the commit.
LockBusinessUpdate(c) ==
    /\ apc[c] = "lb_business"
    /\ LoopFree
    /\ IF aloc[c].bus \in bdirty[c] \/ BusinessLocked(aloc[c].bus)
       THEN LockBusinessAbort(c)
       ELSE /\ apc' = [apc EXCEPT ![c] = "lb_owner"]
            /\ UNCHANGED <<aloc, resp, bdirty>>
    /\ UNCHANGED <<sessions, available, businesses, now, ticks, revoked, mail, ops>>
    /\ UNCHANGED lockFrame

\* Lines 213-219 with Service.update: the owner is saved in the transaction
\* with available as the new flag of the business.  A business without an
\* owner is dereferenced.
LockBusinessOwner(c) ==
    /\ apc[c] = "lb_owner"
    /\ LoopFree
    /\ IF aloc[c].user = None \/ aloc[c].user \in bdirty[c]
       THEN LockBusinessAbort(c)
       ELSE /\ apc' = [apc EXCEPT ![c] = "lb_commit"]
            /\ bdirty' = [bdirty EXCEPT ![c] = {}]
            /\ UNCHANGED <<aloc, resp>>
    /\ UNCHANGED <<sessions, available, businesses, now, ticks, revoked, mail, ops>>
    /\ UNCHANGED lockFrame

\* Lines 220-221: the block is left, the transaction commits both documents
\* and the call answers.
LockBusinessCommit(c) ==
    /\ apc[c] = "lb_commit"
    /\ LoopFree
    /\ LET b == aloc[c].bus
           owner == aloc[c].user
       IN /\ businesses' = [businesses EXCEPT ![b].available = ~aloc[c].flag]
          /\ IF owner \in DOMAIN staff
             THEN WriteUser(owner, [UserDoc(owner) EXCEPT !.available = ~aloc[c].flag])
             ELSE UNCHANGED <<available, uperm, ugroup, staff>>
          /\ Touch({b, owner})
    /\ Respond("lock_unlock_business", aloc[c].user, "200", NoToken)
    /\ apc' = [apc EXCEPT ![c] = "idle"]
    /\ aloc' = [aloc EXCEPT ![c] = NoLocals]
    /\ UNCHANGED <<sessions, now, ticks, revoked, mail, ops>>
    /\ UNCHANGED <<authFrame, groupCtl, placeDocs>>

\* ------------------------------------------------------------------- clock
\* Time passes: just past the life of a reset token, or of a refresh token.
TickSteps == {RESET_EXPIRE_MINUTES + 1, REFRESH_TOKEN_EXPIRE_MINUTES + 1}

Tick(d) ==
    /\ ticks < MaxTicks
    /\ now' = now + d
    /\ ticks' = ticks + 1
    /\ UNCHANGED <<sessions, available, businesses, apc, aloc, resp, revoked>>
    /\ UNCHANGED <<reqVars, dataVars, mail, extVars>>
    /\ UNCHANGED ops

\* -------------------------------------------------------------- put_extend
ExtendCalls == 1 .. MaxExtendCalls

NoBusiness == [available |-> FALSE, expired_at |-> 0, owner |-> None, tax_code |-> None]

\* The locals of a put_extend call: the order id, the expiry of the Business
\* fetched at line 56, the expiry to save and the Business document read by
\* Service.update.
NoExtend == [pc |-> "idle", id |-> None, expired_at |-> 0, new |-> 0, doc |-> NoBusiness]

\* The Plan documents on record.
Plans == {"plan1"}

\* Plan.period of the plan of an order, in days.
PlanPeriod(plan) == PlanDays

\* put_extend line 61: max(expired_at, now) + timedelta(days=period), the new
\* expiry from the expiry the call fetched; a day is 1440 minutes.
Extended(expired_at, t, period) ==
    (IF expired_at >= t THEN expired_at ELSE t) + period * 1440

\* A put_extend call starts in the first unused slot.
ExtendUnused(c) ==
    /\ ex[c].pc = "idle" /\ eres[c] = None
    /\ \A d \in ExtendCalls : d < c => ~(ex[d].pc = "idle" /\ eres[d] = None)

extendFrame == <<reqVars, dataVars, sessVars, available>>

\* Lines 51-55: the order is read; a missing order is answered 404 and a PAID
\* one 400.
ExtendFind(c, id) ==
    /\ ExtendUnused(c)
    /\ IF id \notin DOMAIN eorders
       THEN /\ eres' = [eres EXCEPT ![c] = "404"]
            /\ ex' = [ex EXCEPT ![c] = [NoExtend EXCEPT !.id = id]]
       ELSE IF eorders[id].status = "PAID"
       THEN /\ eres' = [eres EXCEPT ![c] = "400"]
            /\ ex' = [ex EXCEPT ![c] = [NoExtend EXCEPT !.id = id]]
       ELSE /\ ex' = [ex EXCEPT ![c] = [NoExtend EXCEPT !.pc = "links", !.id = id]]
            /\ UNCHANGED eres
    /\ UNCHANGED <<eorders, businesses, rx>>
    /\ UNCHANGED extendFrame

\* Line 56: fetch_all_links reads the Business and the Plan of the order.
ExtendLinks(c) ==
    /\ ex[c].pc = "links"
    /\ ex' = [ex EXCEPT ![c].pc = "order",
                         ![c].expired_at = businesses[eorders[ex[c].id].business].expired_at]
    /\ UNCHANGED <<eorders, eres, businesses, rx>>
    /\ UNCHANGED extendFrame

\* Lines 57-61: Service.update reads the order again and saves it as PAID, the
\* only value its status is ever given; then the new expiry is computed from
\* the Business fetched at line 56.
ExtendOrderUpdate(c) ==
    /\ ex[c].pc = "order"
    /\ eorders' = [eorders EXCEPT ![ex[c].id].status = "PAID"]
    /\ ex' = [ex EXCEPT ![c].pc = "business",
                         ![c].new = Extended(ex[c].expired_at, now,
                                             PlanPeriod(eorders[ex[c].id].plan))]
    /\ UNCHANGED <<eres, businesses, rx>>
    /\ UNCHANGED extendFrame

\* Line 58 with Service.update line 102: the Business is read again.
ExtendBusinessGet(c) ==
    /\ ex[c].pc = "business"
    /\ ex' = [ex EXCEPT ![c].pc = "save", ![c].doc = businesses[eorders[ex[c].id].business]]
    /\ UNCHANGED <<eorders, eres, businesses, rx>>
    /\ UNCHANGED extendFrame

\* Lines 58-64 with Service.update lines 105-110: the Business read is saved
\* whole with the new expiry, and the call answers true.
ExtendBusinessSave(c) ==
    /\ ex[c].pc = "save"
    /\ LET b == eorders[ex[c].id].business IN
       /\ ~BusinessLocked(b)
       /\ businesses' = [businesses EXCEPT ![b] = [ex[c].doc EXCEPT !.expired_at = ex[c].new]]
       /\ Touch({b})
    /\ eres' = [eres EXCEPT ![c] = "true"]
    /\ ex' = [ex EXCEPT ![c] = [NoExtend EXCEPT !.id = ex[c].id]]
    /\ UNCHANGED <<eorders, rx>>
    /\ UNCHANGED <<reqVars, sessVars, available, treeDocs, orderVars, treeVars>>
    /\ UNCHANGED <<uperm, ugroup, groupCtl>>

\* ---------------------------------------------------------- request_extend
NoRequestExtend == [pc |-> "idle", caller |-> None, plan |-> None, outcome |-> None]

\* The id of the ExtendOrder a request_extend inserts.
NewOrderId == "o2"

\* Lines 77-80: the plan is read, a missing plan is answered 404; then the
\* caller's Business is read.
RequestExtendFind(caller, plan) ==
    /\ rx.pc = "idle"
    /\ NewOrderId \notin DOMAIN eorders
    /\ rx' = IF plan \notin Plans
             THEN [NoRequestExtend EXCEPT !.outcome = "404"]
             ELSE [NoRequestExtend EXCEPT !.pc = "insert", !.caller = caller, !.plan = plan]
    /\ UNCHANGED <<eorders, ex, eres, businesses>>
    /\ UNCHANGED extendFrame

\* Lines 81-88: the image is stored and the order of the caller's Business and
\* the plan is inserted, not yet paid.
RequestExtendInsert ==
    /\ rx.pc = "insert"
    /\ eorders' = [o \in DOMAIN eorders \cup {NewOrderId} |->
                     IF o = NewOrderId
                     THEN [status |-> "UNPAID", business |-> StateOf(rx.caller).user_scope,
                           plan |-> rx.plan]
                     ELSE eorders[o]]
    /\ rx' = [NoRequestExtend EXCEPT !.outcome = "200"]
    /\ UNCHANGED <<ex, eres, businesses>>
    /\ UNCHANGED extendFrame

\* ------------------------------------------- permission and group operations
GroupIssue == gops < MaxGroupOps /\ gops' = gops + 1

GroupRespond(op, u, outcome) == gresp' = [op |-> op, user |-> u, outcome |-> outcome]

NoGroupCall == [pc |-> "idle", caller |-> None, group |-> None, user |-> None, snap |-> None]

\* The handlers with one call in flight each, and the locals of a call.
GroupHandlers ==
    {"post_permission", "delete_permission", "give_permissions", "delete_permissions",
     "post_group", "delete_to_group"}

NoHandlerCall ==
    [pc |-> "idle", caller |-> None, id |-> None, user |-> None, ids |-> <<>>, doc |-> NoDoc,
     new |-> 0, name |-> None]

\* A coroutine of handler h is at the given point, and the event loop is free
\* to run it.
Idle(h) == LoopFree /\ gc[h].pc = "idle"

At(h, pc) == LoopFree /\ gc[h].pc = pc

Goto(h, pc) == gc' = [gc EXCEPT ![h].pc = pc]

Done(h) == gc' = [gc EXCEPT ![h] = NoHandlerCall]

\* What the group operations leave alone.
groupFrame == <<reqVars, authVars, orderVars, treeVars>>

userParts == <<available, uperm, ugroup, staff>>

\* userService.find_one with role Staff and the caller's tenant (user router
\* lines 162-168 and 199-205).
StaffOfTenant(target, user_scope) ==
    /\ target \in DOMAIN staff
    /\ staff[target].role = "Staff"
    /\ staff[target].business = ScopeId(user_scope)

\* ----------------------------------------------------------- post_permission
\* Lines 162-175: the staff member of the caller's tenant is read, then the
\* Permission documents of the ids sent.
PostPermissionFind(caller, target, ids) ==
    /\ Idle("post_permission")
    /\ GroupIssue
    /\ IF ~StaffOfTenant(target, StateOf(caller).user_scope)
       THEN GroupRespond("post_permission", target, "404") /\ UNCHANGED gc
       ELSE /\ gc' = [gc EXCEPT !["post_permission"] =
                         [NoHandlerCall EXCEPT !.pc = "get", !.caller = caller, !.id = target,
                                               !.ids = FindPermissions(ids)]]
            /\ UNCHANGED gresp
    /\ UNCHANGED <<uperm, ugroup, groups, gdirty, bdirty, dg, ag>>
    /\ UNCHANGED <<groupFrame, treeDocs>>

\* Line 176 with Service.update line 102: the document is read again; with no
\* document update answers None, which line 180 dereferences.
PostPermissionGet ==
    /\ At("post_permission", "get")
    /\ LET doc == UserDoc(gc["post_permission"].id) IN
       IF ~doc.found
       THEN /\ GroupRespond("post_permission", gc["post_permission"].id, "500")
            /\ Done("post_permission")
       ELSE /\ gc' = [gc EXCEPT !["post_permission"].pc = "save", !["post_permission"].doc = doc]
            /\ UNCHANGED gresp
    /\ UNCHANGED <<uperm, ugroup, groups, gdirty, bdirty, dg, ag, gops>>
    /\ UNCHANGED <<groupFrame, treeDocs>>

\* Service.update lines 105-109: the document read is saved whole with the
\* permissions found.
PostPermissionSave ==
    /\ At("post_permission", "save")
    /\ LET call == gc["post_permission"] IN
       /\ ~UserLocked(call.id)
       /\ WriteUser(call.id, [call.doc EXCEPT !.permissions = call.ids])
       /\ Touch({call.id})
    /\ Goto("post_permission", "return")
    /\ UNCHANGED <<groups, dg, ag, gresp, gops>>
    /\ UNCHANGED <<reqVars, orderVars, treeVars, extVars, placeDocs, sessVars, businesses>>

\* Lines 180-181: the links are fetched and the call answers.
PostPermissionReturn ==
    /\ At("post_permission", "return")
    /\ GroupRespond("post_permission", gc["post_permission"].id, "200")
    /\ Done("post_permission")
    /\ UNCHANGED <<uperm, ugroup, groups, gdirty, bdirty, dg, ag, gops>>
    /\ UNCHANGED <<groupFrame, treeDocs>>

\* --------------------------------------------------------- delete_permission
\* The references of a User are stored as DBRef values; line 215 pulls the
\* elements that are equal to one of the ObjectIds sent, and a DBRef is equal
\* to no ObjectId.
RefIsId(ref, id) == FALSE

PullIds(permissions, ids) ==
    SelectSeq(permissions, LAMBDA r : ~\E i \in Range(ids) : RefIsId(r, i))

\* Lines 199-212: the staff member of the caller's tenant is read, then the
\* Permission documents of the ids sent.
DeletePermissionFind(caller, target, ids) ==
    /\ Idle("delete_permission")
    /\ GroupIssue
    /\ IF ~StaffOfTenant(target, StateOf(caller).user_scope)
       THEN GroupRespond("delete_permission", target, "404") /\ UNCHANGED gc
       ELSE /\ gc' = [gc EXCEPT !["delete_permission"] =
                         [NoHandlerCall EXCEPT !.pc = "pull", !.caller = caller, !.id = target,
                                               !.ids = FindPermissions(ids)]]
            /\ UNCHANGED gresp
    /\ UNCHANGED <<uperm, ugroup, groups, gdirty, bdirty, dg, ag>>
    /\ UNCHANGED <<groupFrame, treeDocs>>

\* Lines 213-216 with Service.update_one line 116: the $pull on the document,
\* when it is there.
DeletePermissionPull ==
    /\ At("delete_permission", "pull")
    /\ LET call == gc["delete_permission"]
           left == PullIds(uperm[call.id], call.ids)
       IN IF call.id \in DOMAIN staff /\ left # uperm[call.id]
          THEN /\ ~UserLocked(call.id)
               /\ uperm' = [uperm EXCEPT ![call.id] = left]
               /\ Touch({call.id})
          ELSE UNCHANGED <<uperm, gdirty, bdirty>>
    /\ Goto("delete_permission", "get")
    /\ UNCHANGED <<ugroup, groups, dg, ag, gresp, gops>>
    /\ UNCHANGED <<groupFrame, treeDocs>>

\* Service.update_one line 120 and lines 217-218: the document is read again
\* and answered; no document is dereferenced.
DeletePermissionReturn ==
    /\ At("delete_permission", "get")
    /\ GroupRespond("delete_permission", gc["delete_permission"].id,
                    IF gc["delete_permission"].id \in DOMAIN staff THEN "200" ELSE "500")
    /\ Done("delete_permission")
    /\ UNCHANGED <<uperm, ugroup, groups, gdirty, bdirty, dg, ag, gops>>
    /\ UNCHANGED <<groupFrame, treeDocs>>

\* ---------------------------------------------------------- give_permissions
\* Mutant of GrantDenied: the caller's permissions are not compared.
GrantDenied_never(grant_permissions, user_permissions) == FALSE

\* give_permissions lines 143-148: some permission found is not among the
\* caller's direct permissions.
GrantDenied(grant_permissions, user_permissions) ==
    \E q \in Range(grant_permissions) : q \notin Range(user_permissions)

\* Lines 131-133 and 163-165: the caller is read and the tenants compared.  A
\* caller without a document or without a business (an Admin) is dereferenced.
CallerScope(caller, g) ==
    IF caller \notin DOMAIN staff THEN "500"
    ELSE IF staff[caller].business = None \/ GroupBusiness(g) = None THEN "500"
    ELSE IF staff[caller].business # GroupBusiness(g) THEN "403"
    ELSE "ok"

\* Lines 128-130: the group is read.
GivePermissionsFind(caller, g, ids) ==
    /\ Idle("give_permissions")
    /\ GroupIssue
    /\ IF g \notin DOMAIN groups
       THEN GroupRespond("give_permissions", caller, "404") /\ UNCHANGED gc
       ELSE /\ gc' = [gc EXCEPT !["give_permissions"] =
                         [NoHandlerCall EXCEPT !.pc = "user", !.caller = caller, !.id = g,
                                               !.ids = FindPermissions(ids)]]
            /\ UNCHANGED gresp
    /\ UNCHANGED <<uperm, ugroup, groups, gdirty, bdirty, dg, ag>>
    /\ UNCHANGED <<groupFrame, treeDocs>>

\* Lines 131-148: the caller is read; the Permission documents found are
\* compared with the permissions of the document read.
GivePermissionsUser ==
    /\ At("give_permissions", "user")
    /\ LET call == gc["give_permissions"]
           outcome == IF CallerScope(call.caller, call.id) # "ok"
                      THEN CallerScope(call.caller, call.id)
                      ELSE IF GrantDenied(call.ids, uperm[call.caller]) THEN "403"
                      ELSE "ok"
       IN IF outcome # "ok"
          THEN GroupRespond("give_permissions", call.caller, outcome) /\ Done("give_permissions")
          ELSE Goto("give_permissions", "get") /\ UNCHANGED gresp
    /\ UNCHANGED <<uperm, ugroup, groups, gdirty, bdirty, dg, ag, gops>>
    /\ UNCHANGED <<groupFrame, treeDocs>>

\* Line 149 with Service.update line 102: the group is read again; with no
\* document update answers None, which line 150 dereferences.
GivePermissionsGet ==
    /\ At("give_permissions", "get")
    /\ IF gc["give_permissions"].id \notin DOMAIN groups
       THEN /\ GroupRespond("give_permissions", gc["give_permissions"].caller, "500")
            /\ Done("give_permissions")
       ELSE Goto("give_permissions", "save") /\ UNCHANGED gresp
    /\ UNCHANGED <<uperm, ugroup, groups, gdirty, bdirty, dg, ag, gops>>
    /\ UNCHANGED <<groupFrame, treeDocs>>

\* Document.save of a Group: the permissions in hand are written, and a group
\* that is gone is inserted again.
WriteGroup(G, g, permissions) ==
    [x \in DOMAIN G \cup {g} |-> IF x = g THEN permissions ELSE G[x]]

\* Service.update lines 105-109: the group read is saved whole with the
\* permissions found.
GivePermissionsSave ==
    /\ At("give_permissions", "save")
    /\ groups' = WriteGroup(groups, gc["give_permissions"].id, gc["give_permissions"].ids)
    /\ Touch({gc["give_permissions"].id})
    /\ Goto("give_permissions", "return")
    /\ UNCHANGED <<uperm, ugroup, dg, ag, gresp, gops>>
    /\ UNCHANGED <<groupFrame, treeDocs>>

\* Lines 150-151: the links are fetched and the call answers.
GivePermissionsReturn ==
    /\ At("give_permissions", "return")
    /\ GroupRespond("give_permissions", gc["give_permissions"].caller, "200")
    /\ Done("give_permissions")
    /\ UNCHANGED <<uperm, ugroup, groups, gdirty, bdirty, dg, ag, gops>>
    /\ UNCHANGED <<groupFrame, treeDocs>>

\* -------------------------------------------------------- delete_permissions
\* Lines 177-186: the references of the Permission documents found are pulled.
PullRefs(permissions, refs) == SelectSeq(permissions, LAMBDA r : r \notin Range(refs))

\* Lines 161-163: the group is read.
DeletePermissionsFind(caller, g, ids) ==
    /\ Idle("delete_permissions")
    /\ GroupIssue
    /\ IF g \notin DOMAIN groups
       THEN GroupRespond("delete_permissions", caller, "404") /\ UNCHANGED gc
       ELSE /\ gc' = [gc EXCEPT !["delete_permissions"] =
                         [NoHandlerCall EXCEPT !.pc = "user", !.caller = caller, !.id = g,
                                               !.ids = FindPermissions(ids)]]
            /\ UNCHANGED gresp
    /\ UNCHANGED <<uperm, ugroup, groups, gdirty, bdirty, dg, ag>>
    /\ UNCHANGED <<groupFrame, treeDocs>>

\* Lines 164-176: the caller is read and the tenants compared; with no
\* Permission document found the group read is answered as it is.
DeletePermissionsUser ==
    /\ At("delete_permissions", "user")
    /\ LET call == gc["delete_permissions"]
           outcome == IF CallerScope(call.caller, call.id) # "ok"
                      THEN CallerScope(call.caller, call.id)
                      ELSE IF call.ids = <<>> THEN "200"
                      ELSE "ok"
       IN IF outcome # "ok"
          THEN /\ GroupRespond("delete_permissions", call.caller, outcome)
               /\ Done("delete_permissions")
          ELSE Goto("delete_permissions", "pull") /\ UNCHANGED gresp
    /\ UNCHANGED <<uperm, ugroup, groups, gdirty, bdirty, dg, ag, gops>>
    /\ UNCHANGED <<groupFrame, treeDocs>>

\* Lines 177-186 with Service.update_one line 116: the $pull on the group,
\* when it is there.
DeletePermissionsPull ==
    /\ At("delete_permissions", "pull")
    /\ LET call == gc["delete_permissions"] IN
       IF call.id \in DOMAIN groups /\ PullRefs(groups[call.id], call.ids) # groups[call.id]
       THEN /\ groups' = [groups EXCEPT ![call.id] = PullRefs(@, call.ids)]
            /\ Touch({call.id})
       ELSE UNCHANGED <<groups, gdirty, bdirty>>
    /\ Goto("delete_permissions", "get")
    /\ UNCHANGED <<uperm, ugroup, dg, ag, gresp, gops>>
    /\ UNCHANGED <<groupFrame, treeDocs>>

\* Service.update_one line 120 and lines 187-188: the group is read again and
\* answered; no document is dereferenced.
DeletePermissionsReturn ==
    /\ At("delete_permissions", "get")
    /\ GroupRespond("delete_permissions", gc["delete_permissions"].caller,
                    IF gc["delete_permissions"].id \in DOMAIN groups THEN "200" ELSE "500")
    /\ Done("delete_permissions")
    /\ UNCHANGED <<uperm, ugroup, groups, gdirty, bdirty, dg, ag, gops>>
    /\ UNCHANGED <<groupFrame, treeDocs>>

\* ---------------------------------------------------------------- post_group
\* Group.name: the groups on record are named after their ids, the groups
\* post_group inserts are named "new".
GroupName(g) == IF g \in {"g9", "g8", "g7"} THEN "new" ELSE g

\* str.lower() on the names in use.
Lower(name) ==
    CASE name = "G1" -> "g1"
      [] name = "NEW" -> "new"
      [] name = "A1" -> "a1"
      [] OTHER -> name

\* The id of the group post_group inserts for a caller.
NewGroupId(user_scope) ==
    CASE user_scope = "b1" -> "g9"
      [] user_scope = "b2" -> "g7"
      [] OTHER -> "g8"

\* Lines 63-67: the groups of the caller's tenant are read and their names
\* compared in lower case with the name sent.
PostGroupFind(caller, name) ==
    /\ Idle("post_group")
    /\ NewGroupId(StateOf(caller).user_scope) \notin DOMAIN groups
    /\ GroupIssue
    /\ IF \E g \in DOMAIN groups :
             /\ GroupBusiness(g) = ScopeId(StateOf(caller).user_scope)
             /\ Lower(GroupName(g)) = Lower(name)
       THEN GroupRespond("post_group", caller, "409") /\ UNCHANGED gc
       ELSE /\ gc' = [gc EXCEPT !["post_group"] =
                         [NoHandlerCall EXCEPT !.pc = "insert", !.caller = caller,
                                               !.id = NewGroupId(StateOf(caller).user_scope)]]
            /\ UNCHANGED gresp
    /\ UNCHANGED <<uperm, ugroup, groups, gdirty, bdirty, dg, ag>>
    /\ UNCHANGED <<groupFrame, treeDocs>>

\* Lines 68-69: the group is inserted without permissions.
PostGroupInsert ==
    /\ At("post_group", "insert")
    /\ groups' = WriteGroup(groups, gc["post_group"].id, <<>>)
    /\ GroupRespond("post_group", gc["post_group"].caller, "200")
    /\ Done("post_group")
    /\ UNCHANGED <<uperm, ugroup, gdirty, bdirty, dg, ag, gops>>
    /\ UNCHANGED <<groupFrame, treeDocs>>

\* -------------------------------------------------------------- add_to_group
\* Lines 198-204 and 223-229: the group read and its tenant compared with the
\* caller's; a group without a business is dereferenced.
GroupScope(g, user_scope) ==
    IF g \notin DOMAIN groups THEN "404"
    ELSE IF GroupBusiness(g) = None THEN "500"
    ELSE IF ScopeId(user_scope) # GroupBusiness(g) THEN "403"
    ELSE "ok"

\* add_to_group lines 198-204: the group is read and its tenant compared.
AddToGroupFind(caller, g, user_id) ==
    /\ ag.pc = "idle"
    /\ LoopFree
    /\ GroupIssue
    /\ IF GroupScope(g, StateOf(caller).user_scope) # "ok"
       THEN /\ GroupRespond("add_to_group", user_id, GroupScope(g, StateOf(caller).user_scope))
            /\ UNCHANGED ag
       ELSE /\ ag' = [NoGroupCall EXCEPT !.pc = "user", !.caller = caller,
                                         !.group = g, !.user = user_id]
            /\ UNCHANGED gresp
    /\ UNCHANGED <<uperm, ugroup, groups, gdirty, bdirty, dg, gc>>
    /\ UNCHANGED <<groupFrame, treeDocs>>

\* Lines 205-213 and 232-245: the user is read and its tenant compared.
MemberScope(user_id, current_scope) ==
    IF user_id \notin DOMAIN staff THEN "404"
    ELSE IF staff[user_id].business = None THEN "500"
    ELSE IF ScopeId(current_scope) # staff[user_id].business THEN "403"
    ELSE "ok"

\* add_to_group lines 205-213.
AddToGroupUser ==
    /\ ag.pc = "user"
    /\ LoopFree
    /\ LET outcome == MemberScope(ag.user, StateOf(ag.caller).user_scope) IN
       IF outcome # "ok"
       THEN GroupRespond("add_to_group", ag.user, outcome) /\ ag' = NoGroupCall
       ELSE ag' = [ag EXCEPT !.pc = "update"] /\ UNCHANGED gresp
    /\ UNCHANGED <<uperm, ugroup, groups, gdirty, bdirty, dg, gc, gops>>
    /\ UNCHANGED <<groupFrame, treeDocs>>

\* add_to_group line 214, Service.update_one lines 115-118: $addToSet of the
\* reference of the group read, on the user document when it is there.
AddToGroupUpdate ==
    /\ ag.pc = "update"
    /\ LoopFree
    /\ IF ag.user \in DOMAIN staff /\ ag.group \notin ugroup[ag.user]
       THEN /\ ~UserLocked(ag.user)
            /\ ugroup' = [ugroup EXCEPT ![ag.user] = @ \cup {ag.group}]
            /\ Touch({ag.user})
       ELSE UNCHANGED <<ugroup, gdirty, bdirty>>
    /\ ag' = [ag EXCEPT !.pc = "return"]
    /\ UNCHANGED <<uperm, groups, dg, gc, gresp, gops>>
    /\ UNCHANGED <<groupFrame, treeDocs>>

\* add_to_group lines 214-215, Service.update_one line 119: the user is read
\* again, the document read is dropped, and the call answers true.
AddToGroupReturn ==
    /\ ag.pc = "return"
    /\ LoopFree
    /\ GroupRespond("add_to_group", ag.user, "true")
    /\ ag' = NoGroupCall
    /\ UNCHANGED <<uperm, ugroup, groups, gdirty, bdirty, dg, gc, gops>>
    /\ UNCHANGED <<groupFrame, treeDocs>>

\* ----------------------------------------------------------- delete_to_group
\* Lines 223-229: the group is read and its tenant compared.
DeleteToGroupFind(caller, g, user_id) ==
    /\ Idle("delete_to_group")
    /\ GroupIssue
    /\ IF GroupScope(g, StateOf(caller).user_scope) # "ok"
       THEN /\ GroupRespond("delete_to_group", user_id, GroupScope(g, StateOf(caller).user_scope))
            /\ UNCHANGED gc
       ELSE /\ gc' = [gc EXCEPT !["delete_to_group"] =
                         [NoHandlerCall EXCEPT !.pc = "user", !.caller = caller, !.id = g,
                                               !.user = user_id]]
            /\ UNCHANGED gresp
    /\ UNCHANGED <<uperm, ugroup, groups, gdirty, bdirty, dg, ag>>
    /\ UNCHANGED <<groupFrame, treeDocs>>

\* Lines 230-242: the user is read and its tenant compared.
DeleteToGroupUser ==
    /\ At("delete_to_group", "user")
    /\ LET call == gc["delete_to_group"]
           outcome == MemberScope(call.user, StateOf(call.caller).user_scope)
       IN IF outcome # "ok"
          THEN GroupRespond("delete_to_group", call.user, outcome) /\ Done("delete_to_group")
          ELSE Goto("delete_to_group", "update") /\ UNCHANGED gresp
    /\ UNCHANGED <<uperm, ugroup, groups, gdirty, bdirty, dg, ag, gops>>
    /\ UNCHANGED <<groupFrame, treeDocs>>

\* Lines 244-247, Service.update_one lines 115-118: $pull of the reference of
\* the group read, on the user document when it is there.
DeleteToGroupUpdate ==
    /\ At("delete_to_group", "update")
    /\ LET call == gc["delete_to_group"] IN
       IF call.user \in DOMAIN staff /\ call.id \in ugroup[call.user]
       THEN /\ ~UserLocked(call.user)
            /\ ugroup' = [ugroup EXCEPT ![call.user] = @ \ {call.id}]
            /\ Touch({call.user})
       ELSE UNCHANGED <<ugroup, gdirty, bdirty>>
    /\ Goto("delete_to_group", "return")
    /\ UNCHANGED <<uperm, groups, dg, ag, gresp, gops>>
    /\ UNCHANGED <<groupFrame, treeDocs>>

\* Lines 244-248, Service.update_one line 119: the user is read again, the
\* document read is dropped, and the call answers true.
DeleteToGroupReturn ==
    /\ At("delete_to_group", "return")
    /\ GroupRespond("delete_to_group", gc["delete_to_group"].user, "true")
    /\ Done("delete_to_group")
    /\ UNCHANGED <<uperm, ugroup, groups, gdirty, bdirty, dg, ag, gops>>
    /\ UNCHANGED <<groupFrame, treeDocs>>

\* -------------------------------------------------------------- delete_group
\* delete_group lines 87-98: the transaction begins and reads the group of the
\* caller's tenant.
DeleteGroupFind(caller, g) ==
    /\ dg.pc = "idle"
    /\ LoopFree
    /\ GroupIssue
    /\ IF g \notin DOMAIN groups \/ GroupBusiness(g) # ScopeId(StateOf(caller).user_scope)
       THEN /\ GroupRespond("delete_group", None, "404")
            /\ UNCHANGED <<dg, gdirty>>
       ELSE /\ dg' = [NoGroupCall EXCEPT !.pc = "open", !.caller = caller,
                                         !.group = g, !.snap = ugroup]
            /\ gdirty' = {}
            /\ UNCHANGED gresp
    /\ UNCHANGED <<uperm, ugroup, groups, bdirty, ag, gc>>
    /\ UNCHANGED <<groupFrame, treeDocs>>

\* The users whose document, as the transaction sees it, holds the group.
Holders(snap, g) == {u \in DOMAIN snap : g \in snap[u]}

\* delete_group lines 103-113: $pull of the group from every user matched.
DeleteGroupPull(U, snap, g) ==
    [u \in DOMAIN U |-> IF u \in Holders(snap, g) THEN U[u] \ {g} ELSE U[u]]

\* delete_group lines 99-114: the group is deleted and pulled from the users
\* inside the transaction, which commits when the block is left.  A document
\* the transaction writes that was written after the transaction began, or
\* that another open transaction has written, is a write conflict: the
\* transaction aborts.
DeleteGroupCommit ==
    /\ dg.pc = "open"
    /\ LoopFree
    /\ IF \/ ({dg.group} \cup Holders(dg.snap, dg.group)) \cap gdirty # {}
          \/ \E u \in Holders(dg.snap, dg.group) : UserLocked(u)
       THEN /\ GroupRespond("delete_group", None, "500")
            /\ UNCHANGED <<groups, ugroup, bdirty>>
       ELSE /\ groups' = [g \in DOMAIN groups \ {dg.group} |-> groups[g]]
            /\ ugroup' = DeleteGroupPull(ugroup, dg.snap, dg.group)
            /\ bdirty' = TouchedBusiness(Holders(dg.snap, dg.group))
            /\ GroupRespond("delete_group", None, "200")
    /\ dg' = NoGroupCall
    /\ gdirty' = {}
    /\ UNCHANGED <<uperm, ag, gc, gops>>
    /\ UNCHANGED <<groupFrame, treeDocs>>

\* ------------------------------------------------------- request creation
\* The Product documents in collection order with the types of their
\* variants and options; "px" is the id of no product.
ProductOrder == <<"pr1", "pr2", "pr3">>

\* Product.business: pr3 is a product of tenant b2.
ProductBusiness(p) == IF p = "pr3" THEN "b2" ELSE "b1"

ProductVariants(p) == IF p = "pr1" THEN {"S", "L"} ELSE {"S"}

ProductOptions(p) == IF p = "pr1" THEN {"ice"} ELSE {}

\* The line items a client sends: [_id, variant, options].
Line(id, variant, options) == [id |-> id, variant |-> variant, options |-> options]

Lines ==
    {Line("pr1", "S", <<"ice">>), Line("pr1", "L", <<>>), Line("pr2", "S", <<>>),
     Line("px", "S", <<>>), Line("pr1", "XL", <<>>), Line("pr1", "S", <<"bad">>),
     Line("pr3", "S", <<>>)}

ItemLists == UNION {[1 .. n -> Lines] : n \in 0 .. MaxItems}

\* The ids of the Request documents inserted, in the order they are given out.
CreateIds == <<"n1", "n2", "n3">>

\* productService.find_many({"_id": {"$in": product_ids}}).
FindProducts(product_ids) == SelectSeq(ProductOrder, LAMBDA p : p \in Range(product_ids))

\* request, lines 146-156: the check of an ORDER.
OrderRejected(data) ==
    LET product_ids == [i \in DOMAIN data |-> data[i].id]
        products == FindProducts(product_ids)
    IN \/ Len(products) # Len(data)
       \/ \E i \in DOMAIN data :
            \/ data[i].variant \notin ProductVariants(data[i].id)
            \/ \E j \in DOMAIN data[i].options :
                 data[i].options[j] \notin ProductOptions(data[i].id)

\* A creation that does not stamp the scope of the area.
Stamp_none(d, area) ==
    [status |-> NewRequest.status, staff |-> NewRequest.staff, ver |-> NewRequest.ver,
     business |-> None, branch |-> None,
     area |-> d.area, service_unit |-> d.service_unit, type |-> d.type, data |-> d.data]

\* request, lines 141-143 and 157: the document inserted.
Stamp(d, area) ==
    [status |-> NewRequest.status, staff |-> NewRequest.staff, ver |-> NewRequest.ver,
     business |-> area.business, branch |-> area.branch,
     area |-> d.area, service_unit |-> d.service_unit, type |-> d.type, data |-> d.data]

\* A creation that broadcasts nothing.
Published_none(E, req, area) == E

\* request, lines 158-169: the creation event broadcast.
Published(E, req, area) ==
    Append(E, [request |-> req, business |-> area.business, branch |-> area.branch,
               permission |-> "receive.request"])

\* The locals of the call: the request body, the area read, the id inserted.
NoBody == [service_unit |-> None, area |-> None, type |-> None, data |-> <<>>]

NoCreate == [pc |-> "idle", data |-> NoBody, area |-> None, req |-> None]

CreateRespond(outcome, req) == cresp' = [outcome |-> outcome, request |-> req]

\* request, lines 137-139: the service unit is looked up by id and area.
CreateFind(service_unit, area, type, data) ==
    /\ cr.pc = "idle"
    /\ cops < MaxCreates
    /\ cops' = cops + 1
    /\ LET body == [service_unit |-> service_unit, area |-> area,
                    type |-> type, data |-> data] IN
         IF service_unit \notin DOMAIN units \/ units[service_unit].area # area
         THEN CreateRespond("400", None) /\ cr' = [NoCreate EXCEPT !.data = body]
         ELSE /\ cr' = [NoCreate EXCEPT !.pc = "check", !.data = body,
                                        !.area = units[service_unit].area]
              /\ UNCHANGED cresp
    /\ UNCHANGED <<requests, events>>
    /\ UNCHANGED <<lifeVars, authVars, groupVars, treeDocs, treeVars>>

\* request, lines 140-156: the area is read and an ORDER is checked.  An area
\* that is gone makes line 142 fail.
CreateCheck ==
    /\ cr.pc = "check"
    /\ IF cr.area \notin DOMAIN areas
       THEN CreateRespond("500", None) /\ cr' = [NoCreate EXCEPT !.data = cr.data]
       ELSE IF cr.data.type = "ORDER" /\ OrderRejected(cr.data.data)
       THEN CreateRespond("400", None) /\ cr' = [NoCreate EXCEPT !.data = cr.data]
       ELSE cr' = [cr EXCEPT !.pc = "insert", !.area = areas[cr.area]] /\ UNCHANGED cresp
    /\ UNCHANGED <<requests, events, cops>>
    /\ UNCHANGED <<lifeVars, authVars, groupVars, treeDocs, treeVars>>

\* request, line 157: the document is inserted.
CreateInsert ==
    /\ cr.pc = "insert"
    /\ LET id == CreateIds[Cardinality(DOMAIN requests \ RequestIds) + 1] IN
         /\ requests' = [r \in DOMAIN requests \cup {id} |->
                           IF r = id THEN Stamp(cr.data, cr.area) ELSE requests[r]]
         /\ cr' = [cr EXCEPT !.pc = "broadcast", !.req = id]
    /\ UNCHANGED <<events, cresp, cops>>
    /\ UNCHANGED <<lifeVars, authVars, groupVars, treeDocs, treeVars>>

\* request, lines 158-170: the event is broadcast and the request returned.
CreateBroadcast ==
    /\ cr.pc = "broadcast"
    /\ events' = Published(events, cr.req, cr.area)
    /\ CreateRespond("200", cr.req)
    /\ cr' = [NoCreate EXCEPT !.data = cr.data]
    /\ UNCHANGED <<requests, cops>>
    /\ UNCHANGED <<lifeVars, authVars, groupVars, treeDocs, treeVars>>

\* ---------------------------------------------------- default permissions
\* The document classes handed to MongoDB, by the words of their lower-case names.
Documents ==
    {<<"user">>, <<"permission">>, <<"group">>, <<"business", "type">>, <<"business">>,
     <<"branch">>, <<"area">>, <<"service", "unit">>, <<"category">>, <<"sub", "category">>,
     <<"product">>, <<"request">>, <<"order">>, <<"payment">>, <<"plan">>,
     <<"extend", "order">>}

\* Base.get_actions(): the actions of a document class.
Actions(document) == {"view", "create", "update", "delete"}

\* MongoDB.initialize: one Permission per action and document class, with the
\* code "<action>.<document>".
AllCodes == UNION {{[action |-> a, document |-> d] : a \in Actions(d)} : d \in Documents}

\* The regex \.(n1|n2|...)$ on a code: the document name is one of the names.
EndsWithDotName(code, names) == code.document \in names

\* The regex ^view.*(n1|n2|...)$ on a code: the code begins with "view" and
\* ends with one of the names.
ViewEndingWith(code, names) ==
    /\ code.action = "view"
    /\ \E n \in names :
         /\ Len(n) <= Len(code.document)
         /\ SubSeq(code.document, Len(code.document) - Len(n) + 1, Len(code.document)) = n

AdminNames ==
    {<<"business", "type">>, <<"business">>, <<"plan">>, <<"group">>, <<"user">>,
     <<"extend", "order">>, <<"permission">>}

OwnerExcluded == {<<"business", "type">>, <<"business">>, <<"plan">>, <<"permission">>}

StaffNames ==
    {<<"area">>, <<"branch">>, <<"order">>, <<"category">>, <<"sub", "category">>,
     <<"service", "unit">>, <<"product">>}

\* UserService.insert lines 21-45: the permissions a new user is given.
DefaultPermissions(role) ==
    CASE role = "Admin" -> {c \in AllCodes : EndsWithDotName(c, AdminNames)}
      [] role = "BusinessOwner" -> {c \in AllCodes : ~EndsWithDotName(c, OwnerExcluded)}
      [] OTHER -> {c \in AllCodes : ViewEndingWith(c, StaffNames)}

\* ------------------------------------- branches, areas, service units, staff
\* Branch.business: br1 and br2 are branches of tenant b1, br3 of tenant b2.
\* Branches br9 and br8 are the ones post_branch inserts for b1 and for b2,
\* br7 the one post_business inserts.
BranchBusiness(b) ==
    CASE b \in {"br3", "br8"} -> "b2"
      [] b = "br7" -> "b3"
      [] OTHER -> "b1"

\* Branch.name: the branches on record are named after their ids.
BranchName(b) == IF b \in {"br9", "br8", "br7"} THEN "new" ELSE b

\* The callers the branch, area and service_unit routers admit.
TreeCallers == {"owner", "x1"}

\* The callers the user router admits.
UserCallers == {"owner", "admin"}

NoTreeCall ==
    [pc |-> "idle", caller |-> None, id |-> None, name |-> None, pending |-> FALSE,
     dirty |-> FALSE]

TreeIssue == tops < MaxTreeOps /\ tops' = tops + 1

TreeRespond(op, outcome) == tresp' = [op |-> op, outcome |-> outcome]

\* What the operations on the tree leave alone.
treeFrame == <<reqVars, authVars, groupVars, orderVars>>

\* The documents of a collection that a delete_many over "branch.$id" or
\* "area.$id" removes, as entries of the deletion record.
Matching(kind, D, field, id, by) ==
    {[kind |-> kind, id |-> x, parent |-> id, by |-> by] :
        x \in {y \in DOMAIN D : (IF field = "self" THEN D[y] ELSE D[y][field]) = id}}

Without(D, id, field) ==
    [x \in {y \in DOMAIN D : (IF field = "self" THEN D[y] ELSE D[y][field]) # id} |-> D[x]]

\* ------------------------------------------------------------ delete_branch
\* delete_branch lines 86-93: the transaction begins, the branch is read and
\* its tenant compared with the caller's.
DeleteBranchFind(caller, id) ==
    /\ db.pc = "idle"
    /\ TreeIssue
    /\ IF id \notin branches
       THEN TreeRespond("delete_branch", "404") /\ UNCHANGED db
       ELSE IF BranchBusiness(id) # StateOf(caller).user_scope
       THEN TreeRespond("delete_branch", "403") /\ UNCHANGED db
       ELSE /\ db' = [NoTreeCall EXCEPT !.pc = "branch", !.caller = caller, !.id = id]
            /\ UNCHANGED tresp
    /\ UNCHANGED <<da, pa, pu, pn, ub, ds, pb, gone>>
    /\ UNCHANGED <<treeFrame, treeDocs>>

\* delete_branch line 94 with Service.delete: the branch is read without the
\* session and deleted in the transaction; the delete is pending until the
\* transaction commits.  A branch saved since the transaction began is a write
\* conflict.
DeleteBranchDelete ==
    /\ db.pc = "branch"
    /\ IF db.id \in branches /\ db.dirty
       THEN TreeRespond("delete_branch", "500") /\ db' = NoTreeCall
       ELSE /\ db' = [db EXCEPT !.pc = "users", !.pending = db.id \in branches]
            /\ UNCHANGED tresp
    /\ UNCHANGED <<da, pa, pu, pn, ub, ds, pb, gone, tops>>
    /\ UNCHANGED <<treeFrame, treeDocs>>

\* delete_branch line 95: delete_many of the users, without the session.
DeleteBranchUsers ==
    /\ db.pc = "users"
    /\ LET deleted == {u \in DOMAIN staff : staff[u].branch = db.id} IN
       /\ \A u \in deleted : ~UserLocked(u)
       /\ Touch(deleted)
    /\ staff' = Without(staff, db.id, "branch")
    /\ gone' = gone \cup Matching("user", staff, "branch", db.id, "delete_branch")
    /\ db' = [db EXCEPT !.pc = "areas"]
    /\ UNCHANGED <<branches, areas, units, da, pa, pu, pn, ub, ds, pb, tresp, tops>>
    /\ UNCHANGED <<reqVars, authVars, orderVars, uperm, ugroup, groupCtl>>

\* delete_branch line 96: delete_many of the areas, without the session.
DeleteBranchAreas ==
    /\ db.pc = "areas"
    /\ areas' = Without(areas, db.id, "branch")
    /\ gone' = gone \cup Matching("area", areas, "branch", db.id, "delete_branch")
    /\ db' = [db EXCEPT !.pc = "units"]
    /\ UNCHANGED <<branches, units, staff, da, pa, pu, pn, ub, ds, pb, tresp, tops>>
    /\ UNCHANGED treeFrame

\* delete_branch line 97: delete_many of the service units, without the session.
DeleteBranchUnits ==
    /\ db.pc = "units"
    /\ units' = Without(units, db.id, "branch")
    /\ gone' = gone \cup Matching("unit", units, "branch", db.id, "delete_branch")
    /\ db' = [db EXCEPT !.pc = "commit"]
    /\ UNCHANGED <<branches, areas, staff, da, pa, pu, pn, ub, ds, pb, tresp, tops>>
    /\ UNCHANGED treeFrame

\* delete_branch lines 86 and 98: the block is left, the transaction commits.
DeleteBranchCommit ==
    /\ db.pc = "commit"
    /\ branches' = IF db.pending THEN branches \ {db.id} ELSE branches
    /\ gone' = IF db.pending
               THEN gone \cup {[kind |-> "branch", id |-> db.id, parent |-> db.id,
                                by |-> "delete_branch"]}
               ELSE gone
    /\ TreeRespond("delete_branch", "200")
    /\ db' = NoTreeCall
    /\ UNCHANGED <<areas, units, staff, da, pa, pu, pn, ub, ds, pb, tops>>
    /\ UNCHANGED treeFrame

\* Service.transaction lines 162-166: a database call of the block raises
\* PyMongoError; the transaction aborts and the pending delete is dropped.
DeleteBranchFail ==
    /\ db.pc \in {"users", "areas", "units", "commit"}
    /\ TreeRespond("delete_branch", "500")
    /\ db' = NoTreeCall
    /\ UNCHANGED <<da, pa, pu, pn, ub, ds, pb, gone, tops>>
    /\ UNCHANGED <<treeFrame, treeDocs>>

\* -------------------------------------------------------------- post_branch
\* The id of the branch post_branch inserts for a caller.
NewBranchId(user_scope) == IF user_scope = "b2" THEN "br8" ELSE "br9"

\* post_branch lines 44-51: the caller's business is read (and dereferenced),
\* then a branch of the business with the name sent.
PostBranchFind(caller, name) ==
    /\ pn.pc = "idle"
    /\ NewBranchId(StateOf(caller).user_scope) \notin branches
    /\ TreeIssue
    /\ IF StateOf(caller).user_scope \notin DOMAIN businesses
       THEN TreeRespond("post_branch", "500") /\ UNCHANGED pn
       ELSE IF \E b \in branches :
                  BranchBusiness(b) = StateOf(caller).user_scope /\ BranchName(b) = name
       THEN TreeRespond("post_branch", "409") /\ UNCHANGED pn
       ELSE /\ pn' = [NoTreeCall EXCEPT !.pc = "insert", !.caller = caller,
                                        !.id = NewBranchId(StateOf(caller).user_scope)]
            /\ UNCHANGED tresp
    /\ UNCHANGED <<db, da, pa, pu, ub, ds, pb, gone>>
    /\ UNCHANGED <<treeFrame, treeDocs>>

\* post_branch lines 52-57: the branch of the caller's business is inserted.
PostBranchInsert ==
    /\ pn.pc = "insert"
    /\ branches' = branches \cup {pn.id}
    /\ TreeRespond("post_branch", "201")
    /\ pn' = NoTreeCall
    /\ UNCHANGED <<areas, units, staff, db, da, pa, pu, ub, ds, pb, gone, tops>>
    /\ UNCHANGED treeFrame

\* ------------------------------------------------------------ update_branch
\* update_branch lines 68-74: the branch is read and its tenant compared.
UpdateBranchFind(caller, id) ==
    /\ ub.pc = "idle"
    /\ TreeIssue
    /\ IF id \notin branches
       THEN TreeRespond("update_branch", "404") /\ UNCHANGED ub
       ELSE IF BranchBusiness(id) # StateOf(caller).user_scope
       THEN TreeRespond("update_branch", "403") /\ UNCHANGED ub
       ELSE /\ ub' = [NoTreeCall EXCEPT !.pc = "get", !.caller = caller, !.id = id]
            /\ UNCHANGED tresp
    /\ UNCHANGED <<db, da, pa, pu, pn, ds, pb, gone>>
    /\ UNCHANGED <<treeFrame, treeDocs>>

\* Line 75 with Service.update lines 102-104: the branch is read again; with no
\* document nothing is saved and the call answers without data.
UpdateBranchGet ==
    /\ ub.pc = "get"
    /\ IF ub.id \notin branches
       THEN TreeRespond("update_branch", "200") /\ ub' = NoTreeCall
       ELSE ub' = [ub EXCEPT !.pc = "save"] /\ UNCHANGED tresp
    /\ UNCHANGED <<db, da, pa, pu, pn, ds, pb, gone, tops>>
    /\ UNCHANGED <<treeFrame, treeDocs>>

\* Lines 75-76 with Service.update lines 105-110: the branch read is saved
\* whole; a branch that is gone is inserted again.  The save waits for a
\* transaction that has deleted the branch, and is a write after the snapshot
\* of a transaction that has only read it.
UpdateBranchSave ==
    /\ ub.pc = "save"
    /\ ~(db.pending /\ db.id = ub.id)
    /\ branches' = branches \cup {ub.id}
    /\ db' = IF db.pc = "branch" /\ db.id = ub.id THEN [db EXCEPT !.dirty = TRUE] ELSE db
    /\ TreeRespond("update_branch", "200")
    /\ ub' = NoTreeCall
    /\ UNCHANGED <<areas, units, staff, da, pa, pu, pn, ds, pb, gone, tops>>
    /\ UNCHANGED treeFrame

\* -------------------------------------------------------------- delete_area
\* delete_area lines 98-103: the transaction begins and reads the area; an
\* area of another tenant is answered like a missing one.
DeleteAreaFind(caller, id) ==
    /\ da.pc = "idle"
    /\ TreeIssue
    /\ IF id \notin DOMAIN areas \/ areas[id].business # StateOf(caller).user_scope
       THEN TreeRespond("delete_area", "404") /\ UNCHANGED da
       ELSE /\ da' = [NoTreeCall EXCEPT !.pc = "area", !.caller = caller, !.id = id]
            /\ UNCHANGED tresp
    /\ UNCHANGED <<db, pa, pu, pn, ub, ds, pb, gone>>
    /\ UNCHANGED <<treeFrame, treeDocs>>

\* delete_area line 104: areaService.delete(id), without the session.
DeleteAreaDelete ==
    /\ da.pc = "area"
    /\ areas' = [a \in DOMAIN areas \ {da.id} |-> areas[a]]
    /\ gone' = IF da.id \in DOMAIN areas
               THEN gone \cup {[kind |-> "area", id |-> da.id, parent |-> da.id,
                                by |-> "delete_area"]}
               ELSE gone
    /\ da' = [da EXCEPT !.pc = "units"]
    /\ UNCHANGED <<branches, units, staff, db, pa, pu, pn, ub, ds, pb, tresp, tops>>
    /\ UNCHANGED treeFrame

\* delete_area line 105: delete_many of the service units, without the
\* session.
DeleteAreaUnits ==
    /\ da.pc = "units"
    /\ units' = Without(units, da.id, "area")
    /\ gone' = gone \cup Matching("unit", units, "area", da.id, "delete_area")
    /\ da' = [da EXCEPT !.pc = "commit"]
    /\ UNCHANGED <<branches, areas, staff, db, pa, pu, pn, ub, ds, pb, tresp, tops>>
    /\ UNCHANGED treeFrame

\* delete_area line 106: the block is left, the transaction, which wrote
\* nothing, commits, and the call answers.
DeleteAreaCommit ==
    /\ da.pc = "commit"
    /\ TreeRespond("delete_area", "200")
    /\ da' = NoTreeCall
    /\ UNCHANGED <<db, pa, pu, pn, ub, ds, pb, gone, tops>>
    /\ UNCHANGED <<treeFrame, treeDocs>>

\* Service.transaction lines 162-166: a database call of the block raises
\* PyMongoError.  The transaction aborts, and what was deleted without the
\* session stays deleted.
DeleteAreaFail ==
    /\ da.pc \in {"area", "units", "commit"}
    /\ TreeRespond("delete_area", "500")
    /\ da' = NoTreeCall
    /\ UNCHANGED <<db, pa, pu, pn, ub, ds, pb, gone, tops>>
    /\ UNCHANGED <<treeFrame, treeDocs>>

\* ---------------------------------------------------------------- post_area
\* The Area documents in collection order; a9 is the one post_area inserts.
AreaOrder == <<"a1", "a2", "a9">>

\* areaService.find_one({"branch.$id": ..., "name": {"$regex":
\* f"^{data.name}$", "$options": "i"}}): the first area of the branch whose
\* whole name matches without regard to case, or nothing.  The areas on
\* record are named after their ids, and the names sent hold no regex
\* operator.
FindArea(A, branch, name) ==
    LET hit == SelectSeq(AreaOrder, LAMBDA a : /\ a \in DOMAIN A
                                               /\ A[a].branch = branch
                                               /\ Lower(name) = Lower(A[a].name))
    IN IF hit = <<>> THEN None ELSE Head(hit)

\* post_area lines 51-54: the business of the caller and the branch of the
\* body are read and the tenant of the branch is compared.
PostAreaFind(caller, branch, name) ==
    /\ pa.pc = "idle"
    /\ "a9" \notin DOMAIN areas
    /\ TreeIssue
    /\ IF branch \notin branches \/ BranchBusiness(branch) # StateOf(caller).user_scope
       THEN TreeRespond("post_area", "404") /\ UNCHANGED pa
       ELSE /\ pa' = [NoTreeCall EXCEPT !.pc = "name", !.caller = caller, !.id = branch,
                                        !.name = name]
            /\ UNCHANGED tresp
    /\ UNCHANGED <<db, da, pu, pn, ub, ds, pb, gone>>
    /\ UNCHANGED <<treeFrame, treeDocs>>

\* post_area lines 55-56: an area of the branch that has the name is
\* answered 409.
PostAreaName ==
    /\ pa.pc = "name"
    /\ IF FindArea(areas, pa.id, pa.name) # None
       THEN TreeRespond("post_area", "409") /\ pa' = NoTreeCall
       ELSE pa' = [pa EXCEPT !.pc = "insert"] /\ UNCHANGED tresp
    /\ UNCHANGED <<db, da, pu, pn, ub, ds, pb, gone, tops>>
    /\ UNCHANGED <<treeFrame, treeDocs>>

\* post_area lines 57-59: the area is inserted with the branch and the name
\* of the body.
PostAreaInsert ==
    /\ pa.pc = "insert"
    /\ areas' = [a \in DOMAIN areas \cup {"a9"} |->
                   IF a = "a9"
                   THEN [branch |-> pa.id, business |-> StateOf(pa.caller).user_scope,
                         name |-> pa.name]
                   ELSE areas[a]]
    /\ pa' = [pa EXCEPT !.pc = "return"]
    /\ UNCHANGED <<branches, units, staff, db, da, pu, pn, ub, ds, pb, gone, tresp, tops>>
    /\ UNCHANGED treeFrame

\* post_area lines 60-61: the branch of the area in hand is fetched and the
\* call answers.
PostAreaReturn ==
    /\ pa.pc = "return"
    /\ TreeRespond("post_area", "201")
    /\ pa' = NoTreeCall
    /\ UNCHANGED <<db, da, pu, pn, ub, ds, pb, gone, tops>>
    /\ UNCHANGED <<treeFrame, treeDocs>>

\* ------------------------------------------------------------- post_service
\* post_service lines 71-91: the area is read, and one of another tenant is
\* answered like a missing one.  The document handed to Service.insert has no
\* business, which ServiceUnit requires: the model raises ValidationError at
\* base.py line 73, no unit is written, and LoggingMiddleware answers 422.
PostService(caller, area) ==
    /\ TreeIssue
    /\ IF area \notin DOMAIN areas \/ areas[area].business # StateOf(caller).user_scope
       THEN TreeRespond("post_service", "404")
       ELSE TreeRespond("post_service", "422")
    /\ UNCHANGED <<treeCalls, gone>>
    /\ UNCHANGED <<treeFrame, treeDocs>>

\* ----------------------------------------------------------- delete_service
NoUnitCall == [pc |-> "idle", caller |-> None, id |-> None, area |-> None]

\* delete_service lines 152-154: the service unit is read.
DeleteServiceFind(caller, id) ==
    /\ ds.pc = "idle"
    /\ TreeIssue
    /\ IF id \notin DOMAIN units
       THEN TreeRespond("delete_service", "404") /\ UNCHANGED ds
       ELSE /\ ds' = [NoUnitCall EXCEPT !.pc = "area", !.caller = caller, !.id = id,
                                        !.area = units[id].area]
            /\ UNCHANGED tresp
    /\ UNCHANGED <<db, da, pa, pu, pn, ub, pb, gone>>
    /\ UNCHANGED <<treeFrame, treeDocs>>

\* Lines 155-157: the area of the unit is read and dereferenced; an area of
\* another tenant is answered 404.
DeleteServiceArea ==
    /\ ds.pc = "area"
    /\ IF ds.area \notin DOMAIN areas
       THEN TreeRespond("delete_service", "500") /\ ds' = NoUnitCall
       ELSE IF areas[ds.area].business # StateOf(ds.caller).user_scope
       THEN TreeRespond("delete_service", "404") /\ ds' = NoUnitCall
       ELSE ds' = [ds EXCEPT !.pc = "get"] /\ UNCHANGED tresp
    /\ UNCHANGED <<db, da, pa, pu, pn, ub, pb, gone, tops>>
    /\ UNCHANGED <<treeFrame, treeDocs>>

\* Line 158 with Service.delete lines 133-135: the unit is read again; with no
\* document the call answers that the deletion failed.
DeleteServiceGet ==
    /\ ds.pc = "get"
    /\ IF ds.id \notin DOMAIN units
       THEN TreeRespond("delete_service", "failed") /\ ds' = NoUnitCall
       ELSE ds' = [ds EXCEPT !.pc = "delete"] /\ UNCHANGED tresp
    /\ UNCHANGED <<db, da, pa, pu, pn, ub, pb, gone, tops>>
    /\ UNCHANGED <<treeFrame, treeDocs>>

\* Lines 158-160 with Service.delete lines 136-137: the unit is deleted.
DeleteServiceDelete ==
    /\ ds.pc = "delete"
    /\ units' = [t \in DOMAIN units \ {ds.id} |-> units[t]]
    /\ gone' = IF ds.id \in DOMAIN units
               THEN gone \cup {[kind |-> "unit", id |-> ds.id, parent |-> ds.area,
                                by |-> "delete_service"]}
               ELSE gone
    /\ TreeRespond("delete_service", "200")
    /\ ds' = NoUnitCall
    /\ UNCHANGED <<branches, areas, staff, db, da, pa, pu, pn, ub, pb, tops>>
    /\ UNCHANGED treeFrame

\* ---------------------------------------------------------------- post_user
\* The user router, lines 16-22: role_required(["Admin", "BusinessOwner"]).
RoleRequired(caller, roles) == UserRole(caller) \in roles

\* A branch lookup by id alone.
BranchOfTenant_any(B, branch, user_scope) == branch \in B

\* post_user lines 100-102: branchService.find_one by id and tenant.
BranchOfTenant(B, branch, user_scope) ==
    branch \in B /\ BranchBusiness(branch) = user_scope

\* A User document as UserService.insert writes it.
Inserted(rec) ==
    [found |-> TRUE, available |-> TRUE, permissions |-> InsertPermissions(rec.role),
     group |-> {}, rec |-> rec]

\* post_user lines 100-104: the branch of the caller's tenant is read.
PostUserFind(caller, branch, username) ==
    /\ RoleRequired(caller, {"Admin", "BusinessOwner"})
    /\ pu.pc = "idle"
    /\ "s9" \notin DOMAIN staff
    /\ TreeIssue
    /\ IF ~BranchOfTenant(branches, branch, StateOf(caller).user_scope)
       THEN TreeRespond("post_user", "404") /\ UNCHANGED pu
       ELSE /\ pu' = [NoTreeCall EXCEPT !.pc = "username", !.caller = caller, !.id = branch,
                                        !.name = username]
            /\ UNCHANGED tresp
    /\ UNCHANGED <<db, da, pa, pn, ub, ds, pb, gone>>
    /\ UNCHANGED <<treeFrame, treeDocs>>

\* post_user lines 105-106: a user who has the username is answered 409.  The
\* users on record are named after their ids.
PostUserName ==
    /\ pu.pc = "username"
    /\ IF pu.name \in DOMAIN staff
       THEN TreeRespond("post_user", "409") /\ pu' = NoTreeCall
       ELSE pu' = [pu EXCEPT !.pc = "business"] /\ UNCHANGED tresp
    /\ UNCHANGED <<db, da, pa, pn, ub, ds, pb, gone, tops>>
    /\ UNCHANGED <<treeFrame, treeDocs>>

\* post_user lines 107-109: the business of the caller is read.
PostUserBusiness ==
    /\ pu.pc = "business"
    /\ pu' = [pu EXCEPT !.pc = "insert"]
    /\ UNCHANGED <<db, da, pa, pn, ub, ds, pb, gone, tresp, tops>>
    /\ UNCHANGED <<treeFrame, treeDocs>>

\* post_user lines 110-141 with UserService.insert: the user is inserted with
\* the branch read at line 100 and the caller's business, and the call
\* answers; the mail to the new user is left to a background task.
\* Staff.role is "Staff".
PostUserInsert ==
    /\ pu.pc = "insert"
    /\ WriteUser("s9", Inserted([role |-> "Staff", branch |-> pu.id,
                                 business |-> StateOf(pu.caller).user_scope,
                                 permissions |-> DefaultPermissions("Staff")]))
    /\ TreeRespond("post_user", "200")
    /\ pu' = NoTreeCall
    /\ UNCHANGED <<branches, areas, units, db, da, pa, pn, ub, ds, pb, gone, tops>>
    /\ UNCHANGED <<reqVars, sessVars, businesses, extVars, orderVars>>
    /\ UNCHANGED <<groups, gdirty, bdirty, dg, ag, gc, gresp, gops>>

\* ------------------------------------------------------------ post_business
NoRegister ==
    [pc |-> "idle", name |-> None, username |-> None, address |-> FALSE, tax_code |-> None]

\* Business.name: the businesses on record are named after their ids.
BusinessName(b) == IF b = "b3" THEN "new" ELSE b

\* post_business lines 98-110: the transaction begins; the business type, the
\* business name, the username and, when the body carries one, the tax code
\* are looked up, and a name, a username or a tax code on record is answered
\* 409.  address tells whether the body carries business_address and
\* business_contact, which BusinessRegister leaves optional, as it does
\* business_tax_code.
PostBusinessCheck(type_ok, name, username, address, tax_code) ==
    /\ pb.pc = "idle"
    /\ "b3" \notin DOMAIN businesses
    /\ TreeIssue
    /\ IF ~type_ok
       THEN TreeRespond("post_business", "400") /\ UNCHANGED pb
       ELSE IF \/ \E b \in DOMAIN businesses : BusinessName(b) = name
               \/ username \in DOMAIN staff
               \/ /\ tax_code # None
                  /\ \E b \in DOMAIN businesses : businesses[b].tax_code = tax_code
       THEN TreeRespond("post_business", "409") /\ UNCHANGED pb
       ELSE /\ pb' = [NoRegister EXCEPT !.pc = "commit", !.name = name,
                                         !.username = username, !.address = address,
                                         !.tax_code = tax_code]
            /\ UNCHANGED tresp
    /\ UNCHANGED <<db, da, pa, pu, pn, ub, ds, gone>>
    /\ UNCHANGED <<treeFrame, treeDocs>>

\* Lines 126-150: the business, its owner and its branch are inserted in the
\* transaction, which commits when the block is left.  Branch requires an
\* address and a contact: without them the model of the branch raises
\* ValidationError (base.py line 73), the transaction aborts with nothing
\* inserted, and LoggingMiddleware answers 422.
PostBusinessCommit ==
    /\ pb.pc = "commit"
    /\ IF ~pb.address
       THEN /\ TreeRespond("post_business", "422")
            /\ pb' = NoRegister
            /\ UNCHANGED <<businesses, branches, userParts>>
       ELSE /\ businesses' = [b \in DOMAIN businesses \cup {"b3"} |->
                                IF b = "b3"
                                THEN [available |-> TRUE, expired_at |-> TenantExpiry,
                                      owner |-> "o3", tax_code |-> pb.tax_code]
                                ELSE businesses[b]]
            /\ WriteUser("o3", Inserted([role |-> "BusinessOwner", branch |-> None,
                                         business |-> "b3",
                                         permissions |-> DefaultPermissions("BusinessOwner")]))
            /\ branches' = branches \cup {"br7"}
            /\ pb' = [pb EXCEPT !.pc = "return"]
            /\ UNCHANGED tresp
    /\ UNCHANGED <<areas, units, db, da, pa, pu, pn, ub, ds, gone, tops>>
    /\ UNCHANGED <<reqVars, sessVars, extVars, orderVars>>
    /\ UNCHANGED <<groups, gdirty, bdirty, dg, ag, gc, gresp, gops>>

\* Lines 151-156: the owner is looked up by username and answered.
PostBusinessReturn ==
    /\ pb.pc = "return"
    /\ TreeRespond("post_business", "201")
    /\ pb' = NoRegister
    /\ UNCHANGED <<db, da, pa, pu, pn, ub, ds, gone, tops>>
    /\ UNCHANGED <<treeFrame, treeDocs>>

\* Service.transaction lines 162-166: a database call of the block raises
\* PyMongoError; the transaction aborts and nothing is inserted.
PostBusinessFail ==
    /\ pb.pc = "commit"
    /\ TreeRespond("post_business", "500")
    /\ pb' = NoRegister
    /\ UNCHANGED <<db, da, pa, pu, pn, ub, ds, gone, tops>>
    /\ UNCHANGED <<treeFrame, treeDocs>>

\* ------------------------------------------------- whole-document updates
\* The handlers that write a document through Service.update, or through
\* Document.save on a document they read, with one call in flight each.
UpdateHandlers ==
    {"put_user", "put_me", "upload_avatar", "change_password",
     "put_business", "upload_logo", "extend_business",
     "put_area", "put_service", "post_qrcode"}

\* One of these operations is issued.
UpdateIssue == gops < MaxUpdateOps /\ gops' = gops + 1

Start(h, pc, caller, id) ==
    gc' = [gc EXCEPT ![h] = [NoHandlerCall EXCEPT !.pc = pc, !.caller = caller, !.id = id]]

updateFrame == <<reqVars, sessVars, extVars, orderVars, treeVars, branches, groups, dg, ag>>

updateDocs == <<available, uperm, ugroup, staff, businesses, areas, units, gdirty, bdirty>>

\* The collection of the service object a handler updates through.
Collection(h) ==
    CASE h \in {"put_user", "put_me", "upload_avatar", "change_password"} -> "User"
      [] h \in {"put_business", "upload_logo", "extend_business"} -> "Business"
      [] h = "put_area" -> "Area"
      [] OTHER -> "ServiceUnit"

Found(rec) == [found |-> TRUE, rec |-> rec]

\* Service.update line 102, model.get(id): the document as it is now, or
\* nothing.
Get(collection, id) ==
    CASE collection = "User" -> UserDoc(id)
      [] collection = "Business" ->
            IF id \in DOMAIN businesses THEN Found(businesses[id]) ELSE NoDoc
      [] collection = "Area" -> IF id \in DOMAIN areas THEN Found(areas[id]) ELSE NoDoc
      [] OTHER -> IF id \in DOMAIN units THEN Found(units[id]) ELSE NoDoc

\* ------------------------------------------------------------------ put_user
\* put_user lines 240-254: a caller who is not Admin reads the Staff user of
\* the id and compares its tenant with the caller's; an Admin reads the user
\* of the id.
PutUserFind(caller, id) ==
    /\ Idle("put_user")
    /\ RoleRequired(caller, {"Admin", "BusinessOwner"})
    /\ UpdateIssue
    /\ IF \/ UserRole(caller) # "Admin" /\ ~StaffOfTenant(id, StateOf(caller).user_scope)
          \/ UserRole(caller) = "Admin" /\ id \notin DOMAIN staff
       THEN GroupRespond("put_user", id, "404") /\ UNCHANGED gc
       ELSE Start("put_user", "get", caller, id) /\ UNCHANGED gresp
    /\ UNCHANGED <<updateFrame, updateDocs>>

\* -------------------------------------------------------------------- put_me
\* put_me line 311: an Admin or a BusinessOwner updates the caller's own
\* document.
PutMe(caller) ==
    /\ Idle("put_me")
    /\ RoleRequired(caller, {"Admin", "BusinessOwner"})
    /\ UpdateIssue
    /\ Start("put_me", "get", caller, caller)
    /\ UNCHANGED <<gresp, updateFrame, updateDocs>>

\* ------------------------------------------------------------- upload_avatar
\* upload_avatar lines 273-282: the file is read; one of another type or over
\* 2MB is answered 400.
UploadAvatarRead(caller, valid) ==
    /\ Idle("upload_avatar")
    /\ UpdateIssue
    /\ IF ~valid
       THEN GroupRespond("upload_avatar", caller, "400") /\ UNCHANGED gc
       ELSE Start("upload_avatar", "get", caller, caller) /\ UNCHANGED gresp
    /\ UNCHANGED <<updateFrame, updateDocs>>

\* ----------------------------------------------------------- change_password
\* change_password lines 209-212: the caller's document is read, and the
\* password is changed in the document in hand; a caller whose document is
\* gone is dereferenced, a wrong old password is answered 403.
ChangePasswordFind(caller, pw_ok) ==
    /\ Idle("change_password")
    /\ UpdateIssue
    /\ IF ~UserDoc(caller).found
       THEN GroupRespond("change_password", caller, "500") /\ UNCHANGED gc
       ELSE IF ~pw_ok
       THEN GroupRespond("change_password", caller, "403") /\ UNCHANGED gc
       ELSE /\ gc' = [gc EXCEPT !["change_password"] =
                         [NoHandlerCall EXCEPT !.pc = "save", !.caller = caller, !.id = caller,
                                               !.doc = UserDoc(caller)]]
            /\ UNCHANGED gresp
    /\ UNCHANGED <<updateFrame, updateDocs>>

\* -------------------------------------------------------------- put_business
\* put_business lines 82-84: the Admin reads the business of the id.
PutBusinessFind(id) ==
    /\ Idle("put_business")
    /\ UpdateIssue
    /\ IF id \notin DOMAIN businesses
       THEN GroupRespond("put_business", id, "404") /\ UNCHANGED gc
       ELSE Start("put_business", "get", "admin", id) /\ UNCHANGED gresp
    /\ UNCHANGED <<updateFrame, updateDocs>>

\* --------------------------------------------------------------- upload_logo
\* upload_logo lines 243-252: the file is read; one of another type or over
\* 2MB is answered 400.  The business updated is the caller's tenant.
UploadLogoRead(caller, valid) ==
    /\ Idle("upload_logo")
    /\ RoleRequired(caller, {"BusinessOwner"})
    /\ UpdateIssue
    /\ IF ~valid
       THEN GroupRespond("upload_logo", caller, "400") /\ UNCHANGED gc
       ELSE /\ Start("upload_logo", "get", caller, ScopeId(StateOf(caller).user_scope))
            /\ UNCHANGED gresp
    /\ UNCHANGED <<updateFrame, updateDocs>>

\* ----------------------------------------------------------- extend_business
\* extend_business (POST /business/extend) lines 174-182: the Admin reads the
\* business of the id, and the new expiry is computed from the document read:
\* max(expired_at, now) + timedelta(days).
ExtendBusinessFind(id, days) ==
    /\ Idle("extend_business")
    /\ UpdateIssue
    /\ IF id \notin DOMAIN businesses
       THEN GroupRespond("extend_business", id, "404") /\ UNCHANGED gc
       ELSE /\ gc' = [gc EXCEPT !["extend_business"] =
                         [NoHandlerCall EXCEPT !.pc = "get", !.caller = "admin", !.id = id,
                                               !.new = Extended(businesses[id].expired_at, now, days)]]
            /\ UNCHANGED gresp
    /\ UNCHANGED <<updateFrame, updateDocs>>

\* ------------------------------------------------------------------ put_area
\* put_area lines 72-76: the area is read, and one of another tenant is
\* answered like a missing one.
PutAreaFind(caller, id, name) ==
    /\ Idle("put_area")
    /\ UpdateIssue
    /\ IF id \notin DOMAIN areas \/ areas[id].business # StateOf(caller).user_scope
       THEN GroupRespond("put_area", id, "404") /\ UNCHANGED gc
       ELSE /\ gc' = [gc EXCEPT !["put_area"] =
                         [NoHandlerCall EXCEPT !.pc = "name", !.caller = caller, !.id = id,
                                               !.doc = Found(areas[id]), !.name = name]]
            /\ UNCHANGED gresp
    /\ UNCHANGED <<updateFrame, updateDocs>>

\* put_area lines 77-84: the first area of the branch of the area read that
\* has the name sent is looked up; another area than the one updated is
\* answered 409.
PutAreaName ==
    /\ At("put_area", "name")
    /\ LET call == gc["put_area"]
           area == FindArea(areas, call.doc.rec.branch, call.name)
       IN IF area # None /\ area # call.id
          THEN GroupRespond("put_area", call.id, "409") /\ Done("put_area")
          ELSE Goto("put_area", "get") /\ UNCHANGED gresp
    /\ UNCHANGED <<gops, updateFrame, updateDocs>>

\* --------------------------------------------------------------- put_service
\* put_service lines 108-110: the service unit is read.
PutServiceFind(caller, id) ==
    /\ Idle("put_service")
    /\ UpdateIssue
    /\ IF id \notin DOMAIN units
       THEN GroupRespond("put_service", id, "404") /\ UNCHANGED gc
       ELSE /\ gc' = [gc EXCEPT !["put_service"] =
                         [NoHandlerCall EXCEPT !.pc = "area", !.caller = caller, !.id = id,
                                               !.doc = Found(units[id])]]
            /\ UNCHANGED gresp
    /\ UNCHANGED <<updateFrame, updateDocs>>

\* put_service lines 111-113: the area of the unit read is read and its tenant
\* compared with the caller's; an area that is gone is dereferenced.
PutServiceArea ==
    /\ At("put_service", "area")
    /\ LET call == gc["put_service"]
           area == call.doc.rec.area
       IN IF area \notin DOMAIN areas
          THEN GroupRespond("put_service", call.id, "500") /\ Done("put_service")
          ELSE IF areas[area].business # StateOf(call.caller).user_scope
          THEN GroupRespond("put_service", call.id, "404") /\ Done("put_service")
          ELSE Goto("put_service", "get") /\ UNCHANGED gresp
    /\ UNCHANGED <<gops, updateFrame, updateDocs>>

\* --------------------------------------------------------------- post_qrcode
\* post_qrcode lines 128-133: the file is read and uploaded; the service unit
\* of the id is not looked up before the update.
PostQrcodeRead(caller, id) ==
    /\ Idle("post_qrcode")
    /\ UpdateIssue
    /\ Start("post_qrcode", "get", caller, id)
    /\ UNCHANGED <<gresp, updateFrame, updateDocs>>

\* ------------------------------------------------------------ Service.update
\* Service.update lines 102-104: the document is read again; with no document
\* update answers None: put_me answers the None, upload_logo raises 400, and
\* the others dereference it.
UpdateGet(h) ==
    /\ At(h, "get")
    /\ LET doc == Get(Collection(h), gc[h].id) IN
       IF ~doc.found
       THEN /\ GroupRespond(h, gc[h].id, CASE h = "put_me" -> "200"
                                             [] h = "upload_logo" -> "400"
                                             [] OTHER -> "500")
            /\ Done(h)
       ELSE gc' = [gc EXCEPT ![h].pc = "save", ![h].doc = doc] /\ UNCHANGED gresp
    /\ UNCHANGED <<gops, updateFrame, updateDocs>>

\* The document a handler saves: the one read, with the fields of the body,
\* of which the expiry of extend_business and the name of put_area are the
\* ones kept here.
Changed(h, call) ==
    CASE h = "extend_business" -> [call.doc.rec EXCEPT !.expired_at = call.new]
      [] h = "put_area" -> [call.doc.rec EXCEPT !.name = call.name]
      [] OTHER -> call.doc.rec

\* Document.save on a collection: every field of the document in hand is
\* written, and a document that is gone is inserted again.
Save(D, id, rec) == [x \in DOMAIN D \cup {id} |-> IF x = id THEN rec ELSE D[x]]

\* Service.update lines 105-110, and change_password line 213: the document
\* read is saved whole.  A write waits for an open transaction that has written
\* the document.  put_me, upload_logo and change_password answer; the others
\* go on to fetch links.
UpdateSave(h) ==
    /\ At(h, "save")
    /\ LET call == gc[h] IN
       CASE Collection(h) = "User" ->
               /\ ~UserLocked(call.id)
               /\ WriteUser(call.id, call.doc)
               /\ Touch({call.id})
               /\ UNCHANGED <<businesses, areas, units>>
         [] Collection(h) = "Business" ->
               /\ ~BusinessLocked(call.id)
               /\ businesses' = Save(businesses, call.id, Changed(h, call))
               /\ Touch({call.id})
               /\ UNCHANGED <<userParts, areas, units>>
         [] Collection(h) = "Area" ->
               /\ areas' = Save(areas, call.id, Changed(h, call))
               /\ UNCHANGED <<userParts, businesses, units, gdirty, bdirty>>
         [] OTHER ->
               /\ units' = Save(units, call.id, Changed(h, call))
               /\ UNCHANGED <<userParts, businesses, areas, gdirty, bdirty>>
    /\ IF h \in {"put_me", "upload_logo", "change_password"}
       THEN GroupRespond(h, gc[h].id, "200") /\ Done(h)
       ELSE Goto(h, "return") /\ UNCHANGED gresp
    /\ UNCHANGED <<gops, updateFrame>>

\* The links of the document saved are fetched and the call answers: put_user
\* lines 256-257, upload_avatar 289-290, put_business 86-87, extend_business
\* 183-184, put_area 86-87, put_service 118-119, post_qrcode 137-138.
UpdateReturn(h) ==
    /\ At(h, "return")
    /\ GroupRespond(h, gc[h].id, "200")
    /\ Done(h)
    /\ UNCHANGED <<gops, updateFrame, updateDocs>>

\* --------------------------------------------------------- specification
\* The database as MongoDB.initialize and the routers have left it: the users
\* hold the permissions UserService.insert gave them when they were created.
Init ==
    /\ requests = [r \in RequestIds |-> NewRequest]
    /\ wlock = [r \in RequestIds |-> NoCall]
    /\ ppc = [c \in Calls |-> "idle"]
    /\ puser = [c \in Calls |-> None]
    /\ preq = [c \in Calls |-> None]
    /\ psnap = [c \in Calls |-> None]
    /\ pview = [c \in Calls |-> {}]
    /\ pres = [c \in Calls |-> None]
    /\ pnote = [c \in Calls |-> {}]
    /\ pbranch = [c \in Calls |-> None]
    /\ sessions = {}
    /\ available = [u \in Users |-> TRUE]
    /\ businesses = [b \in {"b1", "b2"} |->
                        [available |-> TRUE, expired_at |-> TenantExpiry,
                         owner |-> IF b = "b1" THEN "owner" ELSE "o2",
                         tax_code |-> IF b = "b1" THEN "T1" ELSE None]]
    /\ now = 0
    /\ ticks = 0
    /\ apc = [c \in AuthCalls |-> "idle"]
    /\ aloc = [c \in AuthCalls |-> NoLocals]
    /\ ops = 0
    /\ resp = [op |-> None, user |-> None, outcome |-> None, access |-> NoToken, refresh |-> NoToken]
    /\ revoked = [u \in Users |-> NoToken]
    /\ mail = NoToken
    /\ eorders = [o \in {"o1"} |-> [status |-> "UNPAID", business |-> "b1", plan |-> "plan1"]]
    /\ ex = [c \in ExtendCalls |-> NoExtend]
    /\ eres = [c \in ExtendCalls |-> None]
    /\ rx = NoRequestExtend
    /\ uperm = [u \in Users |-> IF u \in UserIds THEN InsertPermissions(UserRole(u)) ELSE <<>>]
    /\ ugroup = [u \in Users |-> {}]
    /\ groups = [g \in GroupIds \cup {"gx"} |-> <<>>]
    /\ gdirty = {}
    /\ bdirty = [c \in AuthCalls |-> {}]
    /\ dg = NoGroupCall
    /\ ag = NoGroupCall
    /\ gc = [h \in GroupHandlers \cup UpdateHandlers |-> NoHandlerCall]
    /\ gresp = [op |-> None, user |-> None, outcome |-> None]
    /\ gops = 0
    /\ branches = {"br1", "br2", "br3"}
    /\ areas = [a \in {"a1", "a2"} |->
                  [branch |-> IF a = "a1" THEN "br1" ELSE "br2", business |-> "b1", name |-> a]]
    /\ units = [t \in {"u1", "u2"} |->
                  IF t = "u1" THEN [area |-> "a1", branch |-> "br1", business |-> "b1"]
                  ELSE [area |-> "a2", branch |-> "br2", business |-> "b1"]]
    /\ staff = [u \in UserIds |->
                  [role |-> UserRole(u), branch |-> UserBranch(u), business |-> UserBusiness(u),
                   permissions |-> DefaultPermissions(UserRole(u))]]
    /\ events = <<>>
    /\ cr = NoCreate
    /\ cresp = [outcome |-> None, request |-> None]
    /\ cops = 0
    /\ db = NoTreeCall
    /\ da = NoTreeCall
    /\ pa = NoTreeCall
    /\ pu = NoTreeCall
    /\ pn = NoTreeCall
    /\ ub = NoTreeCall
    /\ ds = NoUnitCall
    /\ pb = NoRegister
    /\ gone = {}
    /\ tresp = [op |-> None, outcome |-> None]
    /\ tops = 0

Next ==
    \/ \E c \in Calls, u \in ProcessCallers, r \in RequestIds : ProcessBegin(c, u, r)
    \/ \E c \in Calls : ProcessUser(c)
    \/ \E c \in Calls : ProcessNotify(c)
    \/ \E c \in Calls : ProcessReturn(c)
    \/ \E c \in Calls : ProcessGet(c)
    \/ \E c \in Calls : ProcessUpdate(c)
    \/ \E c \in Calls : ProcessCommit(c)

Spec == Init /\ [][Next]_vars

\* Claims of request r1 of branch br1 next to a delete_branch of br1.
NextClaim ==
    \/ \E c \in 1 .. MaxClaimCalls, u \in {"owner", "s1"}, r \in RequestIds :
          ProcessBegin(c, u, r)
    \/ \E c \in Calls : ProcessUser(c)
    \/ \E c \in Calls : ProcessNotify(c)
    \/ \E c \in Calls : ProcessReturn(c)
    \/ \E c \in Calls : ProcessGet(c)
    \/ \E c \in Calls : ProcessUpdate(c)
    \/ \E c \in Calls : ProcessCommit(c)
    \/ DeleteBranchFind("owner", "br1")
    \/ DeleteBranchDelete
    \/ DeleteBranchUsers
    \/ DeleteBranchAreas
    \/ DeleteBranchUnits
    \/ DeleteBranchCommit
    \/ DeleteBranchFail

SpecClaim == Init /\ [][NextClaim]_vars

\* The put_extend calls of the Admin and the request_extend of the owner while
\* time passes.
NextExtend ==
    \/ \E c \in ExtendCalls, id \in {"o1", "o2", "o9"} : ExtendFind(c, id)
    \/ \E c \in ExtendCalls : ExtendLinks(c)
    \/ \E c \in ExtendCalls : ExtendOrderUpdate(c)
    \/ \E c \in ExtendCalls : ExtendBusinessGet(c)
    \/ \E c \in ExtendCalls : ExtendBusinessSave(c)
    \/ \E plan \in {"plan1", "planx"} : RequestExtendFind("owner", plan)
    \/ RequestExtendInsert
    \/ \E d \in TickSteps : Tick(d)

SpecExtend == Init /\ [][NextExtend]_vars

\* The session operations.
NextAuth ==
    \/ \E c \in AuthCalls, u \in AuthUsers \cup {Nobody}, pw_ok \in BOOLEAN : SignInCheck(c, u, pw_ok)
    \/ \E c \in AuthCalls : SignInBusiness(c)
    \/ \E c \in AuthCalls : SignInStore(c)
    \/ \E c \in AuthCalls : SignInReturn(c)
    \/ \E c \in AuthCalls, u \in AuthUsers, tok \in TokensAround : SignOutCheck(c, u, tok)
    \/ \E c \in AuthCalls : SignOutDelete(c)
    \/ \E c \in AuthCalls : SignOutVerify(c)
    \/ \E tok \in TokensAround : RefreshToken(tok)
    \/ \E c \in AuthCalls, u \in AuthUsers \cup {Nobody} : ResetFind(c, u)
    \/ \E c \in AuthCalls : ResetStore(c)
    \/ \E c \in AuthCalls : ResetSend(c)
    \/ \E c \in AuthCalls : ResetSendFail(c)
    \/ \E c \in AuthCalls, caller \in {"admin", "owner"}, target \in AuthUsers :
          LockUserFind(c, caller, target)
    \/ \E c \in AuthCalls : LockUserGet(c)
    \/ \E c \in AuthCalls : LockUserUpdate(c)
    \/ \E c \in AuthCalls : LockUserRemoveSession(c)
    \/ \E c \in AuthCalls, b \in {"b1", "b0"} : LockBusinessFind(c, b)
    \/ \E c \in AuthCalls : LockBusinessUpdate(c)
    \/ \E c \in AuthCalls : LockBusinessOwner(c)
    \/ \E c \in AuthCalls : LockBusinessCommit(c)
    \/ \E d \in TickSteps : Tick(d)

SpecAuth == Init /\ [][NextAuth]_vars

\* A staff member signs in and refreshes while the owner edits the member's
\* permissions.
NextRefresh ==
    \/ \E c \in AuthCalls, pw_ok \in BOOLEAN : SignInCheck(c, "s1", pw_ok)
    \/ \E c \in AuthCalls : SignInBusiness(c)
    \/ \E c \in AuthCalls : SignInStore(c)
    \/ \E c \in AuthCalls : SignInReturn(c)
    \/ \E tok \in TokensAround : RefreshToken(tok)
    \/ \E ids \in {<<>>, <<"p3", "p2">>} : PostPermissionFind("owner", "s1", ids)
    \/ PostPermissionGet
    \/ PostPermissionSave
    \/ PostPermissionReturn
    \/ \E d \in TickSteps : Tick(d)

SpecRefresh == Init /\ [][NextRefresh]_vars

\* A member of groups signs in, or asks for a reset link, while the owner
\* edits the member's permissions and groups.
NextSignIn ==
    \/ \E c \in AuthCalls : SignInCheck(c, "s1", TRUE)
    \/ \E c \in AuthCalls : SignInBusiness(c)
    \/ \E c \in AuthCalls : SignInGroups(c)
    \/ \E c \in AuthCalls : SignInStore(c)
    \/ \E c \in AuthCalls : SignInReturn(c)
    \/ \E c \in AuthCalls : ResetFind(c, "s1")
    \/ \E c \in AuthCalls : ResetGroups(c)
    \/ \E c \in AuthCalls : ResetStore(c)
    \/ \E c \in AuthCalls : ResetSend(c)
    \/ PostPermissionFind("owner", "s1", <<"p2">>)
    \/ PostPermissionGet
    \/ PostPermissionSave
    \/ PostPermissionReturn
    \/ \E ids \in {<<>>, <<"p1", "p2">>} : GivePermissionsFind("owner", "g1", ids)
    \/ GivePermissionsUser
    \/ GivePermissionsGet
    \/ GivePermissionsSave
    \/ GivePermissionsReturn
    \/ AddToGroupFind("owner", "g1", "s1")
    \/ AddToGroupUser
    \/ AddToGroupUpdate
    \/ AddToGroupReturn

SpecSignIn == Init /\ [][NextSignIn]_vars

\* The permission and group operations.
NextGroup ==
    \/ \E target \in GroupMembers, ids \in PermLists : PostPermissionFind("owner", target, ids)
    \/ \E caller \in GroupCallers, target \in GroupMembers \cup {"x1"} :
          (caller = "admin" \/ target = "x1") /\ PostPermissionFind(caller, target, <<"p1">>)
    \/ PostPermissionGet
    \/ PostPermissionSave
    \/ PostPermissionReturn
    \/ \E caller \in GroupCallers, target \in {"s1", "x1"} :
          DeletePermissionFind(caller, target, <<"p1">>)
    \/ DeletePermissionPull
    \/ DeletePermissionReturn
    \/ \E g \in GroupIds, ids \in PermLists : GivePermissionsFind("owner", g, ids)
    \/ \E caller \in GroupCallers, g \in GroupIds \cup {"gx"} :
          (caller = "admin" \/ g = "gx") /\ GivePermissionsFind(caller, g, <<"p1">>)
    \/ GivePermissionsUser
    \/ GivePermissionsGet
    \/ GivePermissionsSave
    \/ GivePermissionsReturn
    \/ \E caller \in GroupCallers, g \in {"g1", "gx"}, ids \in {<<>>, <<"p1">>} :
          DeletePermissionsFind(caller, g, ids)
    \/ DeletePermissionsUser
    \/ DeletePermissionsPull
    \/ DeletePermissionsReturn
    \/ \E caller \in GroupCallers, name \in {"G1", "new"} : PostGroupFind(caller, name)
    \/ PostGroupInsert
    \/ \E caller \in GroupCallers, g \in GroupIds, u \in GroupMembers \cup {"x1"} :
          AddToGroupFind(caller, g, u)
    \/ AddToGroupUser
    \/ AddToGroupUpdate
    \/ AddToGroupReturn
    \/ \E caller \in GroupCallers, g \in {"g1", "gx"}, u \in {"s1", "x1"} :
          DeleteToGroupFind(caller, g, u)
    \/ DeleteToGroupUser
    \/ DeleteToGroupUpdate
    \/ DeleteToGroupReturn
    \/ \E caller \in GroupCallers, g \in GroupIds : DeleteGroupFind(caller, g)
    \/ DeleteGroupCommit

SpecGroup == Init /\ [][NextGroup]_vars

\* The creation of requests.
NextOrder ==
    \/ \E t \in {"u1", "u2", "ux"}, a \in {"a1", "a2"} : CreateFind(t, a, "CALL", <<>>)
    \/ \E t \in {"u1", "u2", "ux"}, a \in {"a1", "a2"}, data \in ItemLists :
          CreateFind(t, a, "ORDER", data)
    \/ CreateCheck
    \/ CreateInsert
    \/ CreateBroadcast

SpecOrder == Init /\ [][NextOrder]_vars

\* The operations on branches, areas, service units, staff and businesses.
NextTree ==
    \/ \E caller \in TreeCallers, id \in {"br1", "br2", "br3"} : DeleteBranchFind(caller, id)
    \/ DeleteBranchDelete
    \/ DeleteBranchUsers
    \/ DeleteBranchAreas
    \/ DeleteBranchUnits
    \/ DeleteBranchCommit
    \/ DeleteBranchFail
    \/ \E caller \in TreeCallers, name \in {"br1", "new"} : PostBranchFind(caller, name)
    \/ PostBranchInsert
    \/ \E caller \in TreeCallers, id \in {"br1", "br3"} : UpdateBranchFind(caller, id)
    \/ UpdateBranchGet
    \/ UpdateBranchSave
    \/ \E caller \in TreeCallers, id \in {"a1", "a2", "a9"} : DeleteAreaFind(caller, id)
    \/ DeleteAreaDelete
    \/ DeleteAreaUnits
    \/ DeleteAreaCommit
    \/ DeleteAreaFail
    \/ \E caller \in TreeCallers, b \in {"br1", "br2", "br3"}, name \in {"new", "A1"} :
          PostAreaFind(caller, b, name)
    \/ PostAreaName
    \/ PostAreaInsert
    \/ PostAreaReturn
    \/ \E caller \in TreeCallers, a \in {"a1", "a9"} : PostService(caller, a)
    \/ \E caller \in TreeCallers, id \in {"u1", "u9"} : DeleteServiceFind(caller, id)
    \/ DeleteServiceArea
    \/ DeleteServiceGet
    \/ DeleteServiceDelete
    \/ \E caller \in UserCallers, b \in {"br1", "br2", "br3"}, username \in {"s9", "owner"} :
          PostUserFind(caller, b, username)
    \/ PostUserName
    \/ PostUserBusiness
    \/ PostUserInsert
    \/ \E type_ok \in BOOLEAN, name \in {"b1", "new"} :
          PostBusinessCheck(type_ok, name, "o3", TRUE, "T3")
    \/ PostBusinessCheck(TRUE, "new", "owner", TRUE, "T3")
    \/ PostBusinessCheck(TRUE, "new", "o3", TRUE, "T1")
    \/ PostBusinessCheck(TRUE, "new", "o3", FALSE, None)
    \/ PostBusinessCommit
    \/ PostBusinessReturn
    \/ PostBusinessFail

SpecTree == Init /\ [][NextTree]_vars

\* The handlers that insert a User document (post_user, post_business), the
\* one that deletes them (delete_branch) and the ones that save the document
\* of a user whole.
StaffUpdates == {"put_user", "put_me", "upload_avatar", "change_password"}

NextStaff ==
    \/ \E caller \in UserCallers, b \in {"br1", "br2", "br3"}, username \in {"s9", "owner"} :
          PostUserFind(caller, b, username)
    \/ PostUserName
    \/ PostUserBusiness
    \/ PostUserInsert
    \/ \E username \in {"o3", "owner"} : PostBusinessCheck(TRUE, "new", username, TRUE, "T3")
    \/ PostBusinessCommit
    \/ PostBusinessReturn
    \/ PostBusinessFail
    \/ \E id \in {"br1", "br2"} : DeleteBranchFind("owner", id)
    \/ DeleteBranchDelete
    \/ DeleteBranchUsers
    \/ DeleteBranchAreas
    \/ DeleteBranchUnits
    \/ DeleteBranchCommit
    \/ DeleteBranchFail
    \/ \E id \in {"s1", "s3", "s9"} : PutUserFind("owner", id)
    \/ PutMe("owner")
    \/ \E valid \in BOOLEAN : UploadAvatarRead("s1", valid)
    \/ \E pw_ok \in BOOLEAN : ChangePasswordFind("s1", pw_ok)
    \/ \E h \in StaffUpdates : UpdateGet(h)
    \/ \E h \in StaffUpdates : UpdateSave(h)
    \/ \E h \in {"put_user", "upload_avatar"} : UpdateReturn(h)

SpecStaff == Init /\ [][NextStaff]_vars


\* The owner signs in while the Admin locks the owner and the owner's business,
\* and while the handlers that save a User or a Business document whole run.
AccountUpdates ==
    {"put_user", "put_me", "upload_avatar", "change_password", "put_business", "upload_logo",
     "extend_business"}

NextAccount ==
    \/ \E c \in AuthCalls : SignInCheck(c, "owner", TRUE)
    \/ \E c \in AuthCalls : SignInBusiness(c)
    \/ \E c \in AuthCalls : SignInStore(c)
    \/ \E c \in AuthCalls : SignInReturn(c)
    \/ \E c \in AuthCalls : LockUserFind(c, "admin", "owner")
    \/ \E c \in AuthCalls : LockUserGet(c)
    \/ \E c \in AuthCalls : LockUserUpdate(c)
    \/ \E c \in AuthCalls : LockUserRemoveSession(c)
    \/ \E c \in AuthCalls : LockBusinessFind(c, "b1")
    \/ \E c \in AuthCalls : LockBusinessUpdate(c)
    \/ \E c \in AuthCalls : LockBusinessOwner(c)
    \/ \E c \in AuthCalls : LockBusinessCommit(c)
    \/ \E caller \in {"admin", "owner"} : PutUserFind(caller, "owner")
    \/ PutMe("owner")
    \/ \E valid \in BOOLEAN : UploadAvatarRead("owner", valid)
    \/ \E pw_ok \in BOOLEAN : ChangePasswordFind("owner", pw_ok)
    \/ \E id \in {"b1", "b0"} : PutBusinessFind(id)
    \/ \E valid \in BOOLEAN : UploadLogoRead("owner", valid)
    \/ \E id \in {"b1", "b0"} : ExtendBusinessFind(id, 2)
    \/ \E h \in AccountUpdates : UpdateGet(h)
    \/ \E h \in AccountUpdates : UpdateSave(h)
    \/ \E h \in AccountUpdates \ {"put_me", "upload_logo", "change_password"} : UpdateReturn(h)

SpecAccount == Init /\ [][NextAccount]_vars

\* The deletions of a branch, an area and a service unit next to the handlers
\* that insert a document under them or save one whole.
PlaceUpdates == {"put_area", "put_service", "post_qrcode", "put_user"}

NextPlace ==
    \/ DeleteBranchFind("owner", "br1")
    \/ DeleteBranchDelete
    \/ DeleteBranchUsers
    \/ DeleteBranchAreas
    \/ DeleteBranchUnits
    \/ DeleteBranchCommit
    \/ DeleteBranchFail
    \/ \E id \in {"s1", "s9"} : PutUserFind("owner", id)
    \/ \E caller \in TreeCallers, id \in {"a1", "a9"} : DeleteAreaFind(caller, id)
    \/ DeleteAreaDelete
    \/ DeleteAreaUnits
    \/ DeleteAreaCommit
    \/ DeleteAreaFail
    \/ \E name \in {"new", "A1"} : PostAreaFind("owner", "br1", name)
    \/ PostAreaName
    \/ PostAreaInsert
    \/ PostAreaReturn
    \/ \E caller \in TreeCallers, id \in {"u1", "u9"} : DeleteServiceFind(caller, id)
    \/ DeleteServiceArea
    \/ DeleteServiceGet
    \/ DeleteServiceDelete
    \/ \E caller \in TreeCallers, id \in {"a1", "a9"}, name \in {"A1", "new"} :
          PutAreaFind(caller, id, name)
    \/ PutAreaName
    \/ \E caller \in TreeCallers, id \in {"u1", "u9"} : PutServiceFind(caller, id)
    \/ PutServiceArea
    \/ \E id \in {"u1", "u9"} : PostQrcodeRead("owner", id)
    \/ \E h \in PlaceUpdates : UpdateGet(h)
    \/ \E h \in PlaceUpdates : UpdateSave(h)
    \/ \E h \in PlaceUpdates : UpdateReturn(h)

SpecPlace == Init /\ [][NextPlace]_vars
InScope(c) == ScopeError(StateOf(puser[c]), psnap[c]) = None

\* The calls that read the request while it was WAITING: the claim race.
Claimers(r) ==
    {c \in Calls : ppc[c] # "idle" /\ preq[c] = r /\ InScope(c) /\ psnap[c].status = "WAITING"}

\* Call c begins in this step.
Begins(c) == ppc[c] = "idle" /\ ppc'[c] # "idle"

\* C1: of the process_request calls of authorized staff that race on one
\* WAITING request, once all have answered, exactly one has answered true and
\* every other one has answered false.
C1_OneTrueOthersFalse ==
    \A r \in RequestIds :
        (Claimers(r) # {} /\ \A c \in Claimers(r) : ppc[c] = "done")
        => /\ Cardinality({c \in Claimers(r) : pres[c] = "true"}) = 1
           /\ \A c \in Claimers(r) : pres[c] \in {"true", "false"}

\* C2: the status of a request only ever steps WAITING -> IN_PROGRESS or
\* IN_PROGRESS -> COMPLETED; it never skips, never goes back, never leaves
\* COMPLETED.
C2_StatusMonotonic ==
    [][\A r \in RequestIds :
          \/ requests'[r].status = requests[r].status
          \/ requests[r].status = "WAITING" /\ requests'[r].status = "IN_PROGRESS"
          \/ requests[r].status = "IN_PROGRESS" /\ requests'[r].status = "COMPLETED"]_vars

C2_Witness ==
    /\ requests["r1"].status = "COMPLETED"
    /\ \E c \in Calls : pres[c] = "false"
    /\ \E c \in Calls : pres[c] = "500"

\* C3: a WAITING request has no assignee; the assignee of an IN_PROGRESS or
\* COMPLETED request is the caller of the one call that claimed it (read it
\* WAITING and answered true), and once set the assignee never changes.
C3_AssigneeInv ==
    \A r \in RequestIds :
        LET won == {c \in Claimers(r) : pres[c] = "true"} IN
        IF requests[r].status = "WAITING"
        THEN requests[r].staff = None /\ won = {}
        ELSE Cardinality(won) = 1 /\ \A c \in won : puser[c] = requests[r].staff

C3_AssigneeFixed ==
    /\ []C3_AssigneeInv
    /\ [][\A r \in RequestIds :
             requests[r].staff # None => requests'[r].staff = requests[r].staff]_vars

C3_Witness ==
    /\ requests["r1"].status = "COMPLETED"
    /\ requests["r1"].staff = "s1"
    /\ \E c \in Calls : puser[c] = "s2" /\ pres[c] = "false" /\ psnap[c].status = "IN_PROGRESS"

\* Call c has read its request IN_PROGRESS, in the caller's scope and with
\* another user as staff.
NotAssignee(c) ==
    /\ ppc[c] # "idle" /\ InScope(c)
    /\ psnap[c].status = "IN_PROGRESS" /\ puser[c] # psnap[c].staff

\* C4: a call on an IN_PROGRESS request by an authorized caller who is not the
\* assignee never reaches Service.update, answers false and changes no request
\* at any of its steps; the request goes IN_PROGRESS -> COMPLETED only in a
\* call of its assignee.
C4_OnlyAssigneeCompletes ==
    /\ [](\A c \in Calls :
             NotAssignee(c)
             => /\ ppc[c] \in {"user", "notify", "notified", "done"}
                /\ ppc[c] = "done" => pres[c] = "false")
    /\ [][/\ \A c \in Calls :
                (NotAssignee(c)' /\ ppc'[c] # ppc[c]) => requests' = requests
          /\ \A r \in RequestIds :
                (requests[r].status = "IN_PROGRESS" /\ requests'[r].status = "COMPLETED")
                => \E c \in Calls :
                       /\ ppc[c] = "commit" /\ preq[c] = r
                       /\ puser[c] = requests[r].staff
                       /\ pres'[c] = "true"]_vars

C4_Witness ==
    /\ requests["r1"].status = "IN_PROGRESS"
    /\ \E c \in Calls :
          /\ ppc[c] = "done" /\ psnap[c].status = "IN_PROGRESS"
          /\ InScope(c) /\ puser[c] # psnap[c].staff /\ pres[c] = "false"

\* Call c has read its request COMPLETED, in the caller's scope.
OnCompleted(c) == ppc[c] # "idle" /\ InScope(c) /\ psnap[c].status = "COMPLETED"

\* C5: a call on a COMPLETED request by any authorized caller, the assignee
\* included, never reaches Service.update and answers false, and a COMPLETED
\* request never changes again.
C5_CompletedTerminal ==
    /\ [](\A c \in Calls :
             OnCompleted(c)
             => /\ ppc[c] \in {"user", "notify", "notified", "done"}
                /\ ppc[c] = "done" => pres[c] = "false")
    /\ [][\A r \in RequestIds :
             requests[r].status = "COMPLETED" => requests'[r] = requests[r]]_vars

C5_Witness ==
    \E c \in Calls :
        /\ ppc[c] = "done" /\ psnap[c].status = "COMPLETED"
        /\ puser[c] = psnap[c].staff /\ pres[c] = "false"
        /\ requests[preq[c]] = psnap[c]
\* --------------------------------------------------------- claims: sessions
\* C6: after a sign_out has succeeded for a user, a refresh_token call that
\* presents the refresh token that was on record fails and answers no token.
C6_RefreshAfterSignOutFails ==
    [][\A tok \in TokensAround :
          (/\ Subject(tok) \in AuthUsers
           /\ revoked[Subject(tok)] = tok
           /\ RefreshToken(tok))
          => (resp'.outcome # "200" /\ resp'.refresh = NoToken)]_vars

\* Call c puts a token on record in this step: sign_in line 95,
\* reset_password line 186.
Stores(c) ==
    \/ apc[c] = "si_store" /\ apc'[c] = "si_return"
    \/ apc[c] = "rp_store" /\ apc'[c] = "rp_send"

\* A JSON string, or null for None.
Nullable(v) == IF v = None THEN <<"null">> ELSE <<"string", v>>

\* The refresh token call c issues in the step in which it stores: the payload
\* of the documents the call has read, expiring an hour, or for a reset 15
\* minutes, from now.
IssuedToken(c) ==
    [key |-> "refresh",
     text |-> <<<<"user_id", <<"string", aloc[c].user>>>>,
                <<"user_scope", Nullable(aloc[c].doc.rec.business)>>,
                <<"user_branch", Nullable(aloc[c].doc.rec.branch)>>,
                <<"user_role", <<"string", aloc[c].doc.rec.role>>>>,
                <<"user_permissions", <<"array", Codes(aloc[c].ids)>>>>,
                <<"exp", <<"number", now + (IF apc[c] = "si_store"
                                            THEN REFRESH_TOKEN_EXPIRE_MINUTES
                                            ELSE RESET_EXPIRE_MINUTES)>>>>>>]

\* C7: the session store holds at most one entry per user, the entry of a user
\* is a refresh token of that user, and the token on record for a user changes
\* only by being removed or by being overwritten with the refresh token that a
\* sign_in or reset_password call of that user issues in that step, which is
\* then the one token on record.
C7_OnePerUser ==
    /\ \A e \in sessions : e.key \in AuthUsers /\ Subject(e.token) = e.key /\ e.token.key = "refresh"
    /\ \A u \in AuthUsers : Cardinality({e \in sessions : Subject(e.token) = u}) <= 1

C7_SingleSession ==
    /\ []C7_OnePerUser
    /\ [][/\ \A u \in AuthUsers :
                SessionGet(sessions', u) # SessionGet(sessions, u)
                => \/ SessionGet(sessions', u) = NoToken
                   \/ \E c \in AuthCalls :
                         /\ Stores(c) /\ aloc[c].user = u
                         /\ SessionGet(sessions', u) = IssuedToken(c)
          /\ \A c \in AuthCalls :
                Stores(c) => /\ SessionGet(sessions', aloc[c].user) = IssuedToken(c)
                             /\ aloc'[c].refresh = IssuedToken(c)]_vars

\* A second sign_in of the owner has overwritten the token an earlier one answered.
C7_Witness ==
    \E c \in AuthCalls :
        /\ apc[c] = "si_return" /\ aloc[c].user = "owner"
        /\ sessions = {[key |-> "owner", token |-> aloc[c].refresh]}
        /\ resp.op = "sign_in" /\ resp.user = "owner" /\ resp.outcome = "200"
        /\ resp.refresh # aloc[c].refresh

\* C8: a sign_out whose token differs from the token on record for the caller
\* (no token on record included) answers 403 and leaves the session store as it
\* is; a sign_out goes on to delete only when the tokens are equal; the delete
\* removes the caller's entry and no other; a sign_out that answers 200 leaves
\* the caller without a session.
C8_SignOutExact ==
    [][/\ \A c \in AuthCalls, u \in AuthUsers, tok \in TokensAround :
             SignOutCheck(c, u, tok)
             => IF SessionGet(sessions, u) # tok
                THEN /\ resp'.op = "sign_out" /\ resp'.user = u /\ resp'.outcome = "403"
                     /\ sessions' = sessions /\ apc'[c] = "idle"
                ELSE apc'[c] = "so_delete" /\ sessions' = sessions
       /\ \A c \in AuthCalls :
             (apc[c] = "so_delete" /\ apc'[c] # "so_delete")
             => /\ SessionGet(sessions', aloc[c].user) = NoToken
                /\ \A v \in AuthUsers \ {aloc[c].user} :
                      SessionGet(sessions', v) = SessionGet(sessions, v)
       /\ \A c \in AuthCalls :
             (apc[c] = "so_verify" /\ apc'[c] = "idle")
             => /\ sessions' = sessions
                /\ (resp'.outcome = "200") <=> (SessionGet(sessions, aloc[c].user) = NoToken)]_vars

\* The owner has signed out while the admin's session stays on record.
C8_Witness ==
    /\ resp.op = "sign_out" /\ resp.user = "owner" /\ resp.outcome = "200"
    /\ revoked["owner"] # NoToken
    /\ SessionGet(sessions, "owner") = NoToken
    /\ SessionGet(sessions, "admin") # NoToken

\* C9: a sign_in with wrong credentials, of a locked account, or of a
\* BusinessOwner or Staff whose tenant has expired answers 401 or 403 and leaves
\* the session store as it is; a sign_in token is put on record only by a
\* sign_in call that passed these checks, and a sign_in that answers 200
\* answers the refresh token it issued, which is then the token on record.
C9_Rejected(u, pw_ok) ==
    \/ u = Nobody
    \/ ~pw_ok
    \/ ~available[u]

C9_SignInStores ==
    [][/\ \A c \in AuthCalls, u \in AuthUsers \cup {Nobody}, pw_ok \in BOOLEAN :
             SignInCheck(c, u, pw_ok)
             => IF C9_Rejected(u, pw_ok)
                THEN /\ resp'.op = "sign_in" /\ resp'.outcome \in {"401", "403"}
                     /\ resp'.refresh = NoToken
                     /\ sessions' = sessions /\ apc'[c] = "idle"
                ELSE /\ apc'[c] = IF UserRole(u) = "Admin" THEN "si_store" ELSE "si_business"
                     /\ sessions' = sessions /\ resp' = resp
       /\ \A c \in AuthCalls :
             (apc[c] = "si_business" /\ apc'[c] # "si_business")
             => IF now > businesses[UserBusiness(aloc[c].user)].expired_at
                THEN /\ resp'.op = "sign_in" /\ resp'.outcome = "403"
                     /\ resp'.refresh = NoToken
                     /\ sessions' = sessions /\ apc'[c] = "idle"
                ELSE apc'[c] = "si_store" /\ sessions' = sessions /\ resp' = resp
       /\ \A u \in AuthUsers :
             (SessionGet(sessions', u) # SessionGet(sessions, u)
                /\ SessionGet(sessions', u) # NoToken
                /\ Claims(SessionGet(sessions', u)).exp = now + REFRESH_TOKEN_EXPIRE_MINUTES)
             => \E c \in AuthCalls : apc[c] = "si_store" /\ aloc[c].user = u
       /\ \A c \in AuthCalls :
             (apc[c] = "si_store" /\ apc'[c] # "si_store")
             => /\ aloc'[c].refresh.key = "refresh"
                /\ Subject(aloc'[c].refresh) = aloc[c].user
                /\ SessionGet(sessions', aloc[c].user) = aloc'[c].refresh
       /\ \A c \in AuthCalls :
             (apc[c] = "si_return" /\ apc'[c] = "idle" /\ resp'.outcome = "200")
             => /\ resp'.op = "sign_in" /\ resp'.refresh = aloc[c].refresh
                /\ SessionGet(sessions', aloc[c].user) = aloc[c].refresh]_vars

\* The owner's sign_in was refused after the tenant expired, and the session of
\* an earlier sign_in is still on record.
C9_Witness ==
    /\ resp.op = "sign_in" /\ resp.user = "owner" /\ resp.outcome = "403"
    /\ available["owner"]
    /\ now > businesses["b1"].expired_at
    /\ SessionGet(sessions, "owner") # NoToken

\* C10: when an operation that disables a user completes (lock_unlock_user with
\* its background task, lock_unlock_business for the owner), that user has no
\* refresh token on record.
C10_LockDeletesSession ==
    [][\A c \in AuthCalls :
          /\ (apc[c] = "lu_task" /\ apc'[c] = "idle" /\ aloc[c].flag)
             => SessionGet(sessions', aloc[c].user) = NoToken
          /\ (apc[c] = "lb_commit" /\ apc'[c] = "idle" /\ resp'.outcome = "200"
                /\ ~available'[aloc[c].user])
             => SessionGet(sessions', aloc[c].user) = NoToken]_vars
\* ----------------------------------------- claims: permissions and groups
\* The codes the claim gives: those of the direct permissions and of the
\* permissions of every group the user belongs to.
ExpectedCodes(u) ==
    {PermCode(q) : q \in Range(uperm[u])
                     \cup UNION {Range(groups[g]) : g \in ugroup[u] \cap DOMAIN groups}}

\* The codes of the user document call c has read and of the groups of that
\* document as they are now.
ReadCodes(c) ==
    {PermCode(q) : q \in Range(aloc[c].doc.permissions)
                     \cup UNION {Range(groups[g]) : g \in aloc[c].doc.group \cap DOMAIN groups}}

\* Nothing call c has read was written since.
Unwritten(c) ==
    /\ aloc[c].doc = UserDoc(aloc[c].user)
    /\ Range(aloc[c].ids)
          = Range(uperm[aloc[c].user])
              \cup UNION {Range(groups[g]) : g \in ugroup[aloc[c].user] \cap DOMAIN groups}

\* C11: the permission codes of the tokens a sign_in or reset_password encodes
\* are the union of the codes of the direct permissions of the user document
\* the call read and of the permissions of the groups of that document as the
\* call read them, no code occurs twice, and both tokens carry the same codes;
\* when nothing the call read was written since, the codes are those of the
\* user's permissions and groups on record.
C11_ResolvedPermissions ==
    [][\A c \in AuthCalls :
         /\ (apc[c] \in {"si_groups", "rp_groups"} /\ apc'[c] # apc[c])
            => {PermCode(q) : q \in Range(aloc'[c].ids)} = ReadCodes(c)
         /\ (apc[c] \in {"si_store", "rp_store"} /\ apc'[c] # apc[c])
            => LET perms == Claims(aloc'[c].refresh).user_permissions IN
               /\ Range(perms) = {PermCode(q) : q \in Range(aloc[c].ids)}
               /\ Len(perms) = Cardinality(Range(perms))
               /\ Claims(aloc'[c].access).user_permissions = perms
               /\ aloc[c].doc.group = {}
                  => Range(perms) = {PermCode(q) : q \in Range(aloc[c].doc.permissions)}
               /\ Unwritten(c) => Range(perms) = ExpectedCodes(aloc[c].user)]_vars

\* A sign-in of a user who holds a permission both directly and through a
\* group, and another one through a group only, has answered the codes on
\* record.
C11_Witness ==
    /\ resp.op = "sign_in" /\ resp.user = "s1" /\ resp.outcome = "200"
    /\ \E g \in ugroup["s1"] \cap DOMAIN groups :
          /\ Range(groups[g]) \cap Range(uperm["s1"]) # {}
          /\ Range(groups[g]) \ Range(uperm["s1"]) # {}
    /\ Len(Claims(resp.refresh).user_permissions) >= 2
    /\ Range(Claims(resp.refresh).user_permissions) = ExpectedCodes("s1")

\* C18: after delete_group no user references a group that does not exist,
\* also when add_to_group runs concurrently.
C18_NoDanglingGroup == \A u \in GroupMembers : ugroup[u] \subseteq DOMAIN groups

\* ------------------------------------------------ claims: request creation
\* Every line item names an existing product, a declared variant type and
\* declared option types only.
LinesValid(data) ==
    \A i \in DOMAIN data :
        /\ data[i].id \in Range(ProductOrder)
        /\ data[i].variant \in ProductVariants(data[i].id)
        /\ Range(data[i].options) \subseteq ProductOptions(data[i].id)

\* C12: an ORDER is accepted if and only if every line item is valid.
C12_AcceptedIffValid ==
    [][(CreateCheck /\ cr.data.type = "ORDER" /\ cr.area \in DOMAIN areas)
          => ((cr'.pc = "insert") <=> LinesValid(cr.data.data))]_vars

Created == DOMAIN requests \ RequestIds

C13_EventsMatch ==
    /\ \A i \in DOMAIN events : events[i].request \in Created
    /\ \A i, j \in DOMAIN events : events[i].request = events[j].request => i = j
    /\ cr.pc = "idle" => {events[i].request : i \in DOMAIN events} = Created

\* C13: a rejected creation inserts no request and broadcasts no event; every
\* event is of a request already inserted, and a finished creation has
\* broadcast exactly one event for its request.
C13_RejectWritesNothing ==
    /\ []C13_EventsMatch
    /\ [][(cr'.pc = "idle" /\ (cops' # cops \/ cr.pc = "check"))
            => (cresp'.outcome \in {"400", "500"} /\ requests' = requests
                /\ events' = events /\ cr.req = None)]_vars
    /\ [][(cresp'.outcome = "200" /\ cr.pc = "broadcast" /\ cr'.pc = "idle")
            => (Len(events') = Len(events) + 1 /\ events'[Len(events')].request = cr.req
                /\ cr.req \in DOMAIN requests)]_vars

\* An ORDER naming an unknown product was rejected and nothing was written.
C13_Witness ==
    /\ cr.pc = "idle"
    /\ cresp.outcome = "400"
    /\ cr.data.type = "ORDER"
    /\ cr.data.service_unit \in DOMAIN units
    /\ units[cr.data.service_unit].area = cr.data.area
    /\ \E i \in DOMAIN cr.data.data : cr.data.data[i].id = "px"
    /\ Created = {}
    /\ events = <<>>

\* C14: a request is inserted WAITING, without staff, with the branch and the
\* business of the area of its service unit.
C14_StampedFromArea ==
    [][CreateInsert =>
         LET doc == requests'[cr'.req]
             area == areas[units[cr.data.service_unit].area]
         IN /\ cr'.req \notin DOMAIN requests
            /\ doc.status = "WAITING"
            /\ doc.staff = None
            /\ doc.branch = area.branch
            /\ doc.business = area.business]_vars

\* A request of service unit u2 was created: its branch is br2.
C14_Witness ==
    \E r \in Created :
        /\ requests[r].service_unit = "u2"
        /\ requests[r].branch = "br2"
        /\ requests[r].status = "WAITING"

\* ----------------------------------------------- claims: cascading deletes
\* C15: once delete_branch has returned, no area, service unit or staff user
\* references the deleted branch.
C15_NoSurvivors ==
    \A x \in gone :
        (x.kind = "branch" /\ db.pc = "idle") =>
            /\ \A a \in DOMAIN areas : areas[a].branch # x.id
            /\ \A t \in DOMAIN units : units[t].branch # x.id
            /\ \A u \in DOMAIN staff : staff[u].branch # x.id

\* C16: a parent deletion is all-or-nothing: a dependent deleted by
\* delete_branch is never gone while the branch is still there, and an area
\* deleted by delete_area never leaves its service units behind.
C16_AllOrNothing ==
    /\ \A x \in gone : (x.by = "delete_branch" /\ x.kind # "branch") => x.parent \notin branches
    /\ \A x \in gone : (x.by = "delete_area" /\ x.kind = "area") =>
                          \A t \in DOMAIN units : units[t].area # x.id

\* C17: after a branch deletion has committed no document, Requests
\* included, references the deleted branch.
C17_NoReferenceLeft ==
    \A x \in gone :
        (x.kind = "branch" /\ x.by = "delete_branch") =>
            \A r \in DOMAIN requests : requests[r].branch # x.id

\* ------------------------------------------------------- claims: scoping
\* The caller's tenant differs from the request's, or the caller is bound to
\* a branch that is not the request's.
OutOfScope(u, doc) ==
    \/ UserBusiness(u) # doc.business
    \/ (UserBranch(u) # None /\ UserBranch(u) # doc.branch)

\* C19: a process_request call of a caller outside the request's tenant or
\* branch changes no request and is answered with an error, never true or false.
C19_OutOfScopeNoTransition ==
    /\ [](\A c \in Calls :
            (ppc[c] # "idle" /\ OutOfScope(puser[c], psnap[c]))
               => (ppc[c] = "done" /\ pres[c] \in {"404", "403"} /\ pnote[c] = {}))
    /\ [][\A c \in Calls :
            (Begins(c) /\ OutOfScope(puser'[c], requests[preq'[c]])) => requests' = requests]_vars

\* A caller of another tenant and a caller of another branch were both turned
\* away while the request was claimed by staff of its branch.
C19_Witness ==
    /\ \E c \in Calls : ppc[c] = "done" /\ puser[c] = "x1" /\ pres[c] = "404"
    /\ \E c \in Calls : ppc[c] = "done" /\ puser[c] = "s3" /\ pres[c] = "403"
    /\ requests["r1"].status = "IN_PROGRESS"
    /\ requests["r1"].staff \in {"s1", "s2"}

\* C20: a call on a request outside the caller's tenant or branch scope is
\* answered NotFound (404), never Forbidden.
C20_ScopeMismatchIsNotFound ==
    \A c \in Calls :
        (ppc[c] = "done" /\ OutOfScope(puser[c], psnap[c])) => pres[c] = "404"

\* ------------------------------------------------------- claims: users
\* The role table: the permissions a role is to be given.
RoleTable(role) ==
    CASE role = "Admin" -> {c \in AllCodes : c.document \in AdminNames}
      [] role = "BusinessOwner" -> {c \in AllCodes : c.document \notin OwnerExcluded}
      [] OTHER -> {c \in AllCodes : c.action = "view" /\ c.document \in StaffNames}

\* C21: a user is created with exactly the permissions of the role table.
C21_DefaultsMatchTable ==
    "s9" \in DOMAIN staff => staff["s9"].permissions = RoleTable(staff["s9"].role)

\* C26: every Staff user has a branch of the user's own tenant, and no Admin
\* user has a tenant.
C26_StaffBoundToOwnTenant ==
    \A u \in DOMAIN staff :
        /\ staff[u].role = "Staff" =>
              (staff[u].branch # None /\ BranchBusiness(staff[u].branch) = staff[u].business)
        /\ staff[u].role = "Admin" => staff[u].business = None

\* post_user has created a staff member for a branch of the caller's tenant.
C26_Witness ==
    /\ "s9" \in DOMAIN staff
    /\ staff["s9"].branch = "br2"
    /\ staff["s9"].business = "b1"
    /\ tresp = [op |-> "post_user", outcome |-> "200"]

\* ---------------------------------------------------- claims: token issuing
\* Two dicts carry the same five payload claims.
SamePayload(a, b) ==
    /\ a.user_id = b.user_id /\ a.user_scope = b.user_scope
    /\ a.user_branch = b.user_branch /\ a.user_role = b.user_role
    /\ a.user_permissions = b.user_permissions

\* C22: a reset_password of an existing account encodes an access token and a
\* refresh token of that account, both expiring 15 minutes from now, and puts
\* the refresh token on record: the account then has exactly one session, the
\* refresh token just issued, whatever was on record before, and the sessions
\* of the other accounts are as they were; the link mailed carries the access
\* token of the pair, and the answer changes no session.
C22_ResetIssuesOneSession ==
    [][\A c \in AuthCalls :
          /\ (apc[c] = "rp_store" /\ apc'[c] = "rp_send")
             => LET u == aloc[c].user
                    access == aloc'[c].access
                    refresh == aloc'[c].refresh
                IN /\ access.key = "access"
                   /\ Claims(access).exp = now + RESET_EXPIRE_MINUTES
                   /\ refresh.key = "refresh"
                   /\ Claims(refresh).exp = now + RESET_EXPIRE_MINUTES
                   /\ Subject(access) = u /\ SamePayload(Claims(access), Claims(refresh))
                   /\ {e \in sessions' : e.key = u \/ Subject(e.token) = u}
                         = {[key |-> u, token |-> refresh]}
                   /\ {e \in sessions' : e.key # u} = {e \in sessions : e.key # u}
          /\ (apc[c] = "rp_send" /\ apc'[c] = "idle")
             => /\ resp'.op = "reset_password" /\ resp'.user = aloc[c].user
                /\ resp'.outcome = "200" => mail' = aloc[c].access
                /\ resp'.outcome # "200" => mail' = mail
                /\ sessions' = sessions]_vars

\* The owner's reset link has been mailed after the clock advanced: the owner's
\* only session is the 15-minute token, next to the admin's sign-in session.
C22_Witness ==
    /\ resp.op = "reset_password" /\ resp.user = "owner" /\ resp.outcome = "200"
    /\ now > 0
    /\ Subject(mail) = "owner" /\ Claims(mail).exp = now + RESET_EXPIRE_MINUTES
    /\ SessionGet(sessions, "owner") = [mail EXCEPT !.key = "refresh"]
    /\ SessionGet(sessions, "admin") # NoToken
    /\ Cardinality(sessions) = 2

\* C25: a refresh_token that succeeds answers an access token, signed with
\* the access key, whose text parses to the claims the refresh token presented
\* parses to, user id, tenant, branch, role and permission list, with an expiry
\* of its own and no other claim, together with the very refresh token
\* presented, and the session store is left as it is; the refresh token a
\* sign_in puts on record parses to the user, tenant, branch and role of the
\* document the call read and to the codes of the permissions the call read.
C25_RefreshKeepsPayload ==
    [][/\ \A tok \in TokensAround :
             (RefreshToken(tok) /\ resp'.outcome = "200")
             => /\ resp'.access.key = "access"
                /\ DOMAIN Claims(resp'.access) = DOMAIN Claims(tok)
                /\ SamePayload(Claims(resp'.access), Claims(tok))
                /\ Claims(resp'.access).exp = now + ACCESS_TOKEN_EXPIRE_MINUTES
                /\ resp'.refresh = tok
                /\ sessions' = sessions
       /\ \A c \in AuthCalls :
             (apc[c] = "si_store" /\ apc'[c] = "si_return")
             => LET on_record == SessionGet(sessions', aloc[c].user)
                    claims == Claims(on_record)
                IN /\ on_record.key = "refresh"
                   /\ claims.user_id = aloc[c].user
                   /\ claims.user_scope = aloc[c].doc.rec.business
                   /\ claims.user_branch = aloc[c].doc.rec.branch
                   /\ claims.user_role = aloc[c].doc.rec.role
                   /\ Range(claims.user_permissions)
                         = {PermCode(q) : q \in Range(aloc[c].ids)}]_vars

\* A refresh has answered s1 an access token with the permission list of the
\* sign-in, after the clock advanced and the owner replaced s1's permissions.
C25_Witness ==
    /\ resp.op = "refresh" /\ resp.user = "s1" /\ resp.outcome = "200"
    /\ resp.refresh = SessionGet(sessions, "s1")
    /\ Claims(resp.access).user_permissions = <<"view.order">>
    /\ Claims(resp.access).exp - ACCESS_TOKEN_EXPIRE_MINUTES
          > Claims(resp.refresh).exp - REFRESH_TOKEN_EXPIRE_MINUTES
    /\ uperm["s1"] = <<"p2", "p3">>

\* C27: while an account is disabled no step puts a token on record for it.
C27_NoSessionWhileDisabled ==
    [][\A u \in AuthUsers :
          (~available[u] /\ SessionGet(sessions', u) # SessionGet(sessions, u))
          => SessionGet(sessions', u) = NoToken]_vars

\* ------------------------------------------------- claims: notifications
\* C23: a process_request call that answers false has addressed its
\* notification to its caller and to nobody else, before it answers; a call
\* that answers anything else, true included, has notified nobody; the
\* notification is sent only by the broadcast of a call that found its request
\* already handled, and such a call answers nothing but false.
C23_FalseNotifiesCaller ==
    /\ [](\A c \in Calls :
             /\ pres[c] = "false" => pnote[c] = {puser[c]}
             /\ pres[c] \notin {None, "false"} => pnote[c] = {}
             /\ pnote[c] # {} => (ppc[c] \in {"notified", "done"} /\ pnote[c] = {puser[c]}))
    /\ [][\A c \in Calls :
             /\ pnote'[c] # pnote[c]
                => /\ ppc[c] = "notify" /\ ppc'[c] = "notified"
                   /\ AlreadyHandled(psnap[c], puser[c])
             /\ (ppc[c] = "notified" /\ ppc'[c] # "notified") => pres'[c] = "false"]_vars

\* s1 holds the request IN_PROGRESS with the answer true, and s2's later call
\* was answered false and notified s2 alone.
C23_Witness ==
    \E c, d \in Calls :
        /\ pres[c] = "true" /\ puser[c] = "s1" /\ pnote[c] = {}
        /\ pres[d] = "false" /\ puser[d] = "s2" /\ pnote[d] = {"s2"}
        /\ requests["r1"].status = "IN_PROGRESS" /\ requests["r1"].staff = "s1"

\* --------------------------------------------- claims: claim and cascade
\* C24: a process_request call that began while the branch of its request was
\* being deleted, or after it was deleted, never commits its transition of the
\* request once the branch is deleted.
C24_ClaimSerializedWithCascade ==
    [][\A c \in Calls :
          (ppc[c] = "commit" /\ ppc'[c] = "done" /\ pres'[c] = "true"
             /\ pbranch[c] \in {"deleting", "deleted"})
          => requests'[preq[c]].branch \in branches']_vars

\* ------------------------------------------------------- claims: renewal
\* C28: over the put_extend calls on order o1 at most one answers true, and a
\* call that is rejected leaves the orders and the tenants as they are.
C28_AppliedOnce ==
    /\ [](Cardinality({c \in ExtendCalls : eres[c] = "true" /\ ex[c].id = "o1"}) <= 1)
    /\ [][\A c \in ExtendCalls :
             (eres[c] = None /\ eres'[c] \in {"404", "400"})
             => (eorders' = eorders /\ businesses' = businesses)]_vars

\* --------------------------------------------------- claims: granting
\* C29: a give_permissions call writes the permissions of one group only, a
\* group of the caller's tenant, and every permission of that group afterwards
\* is one of the caller's direct permissions; at every other step of the call,
\* and in a call that is rejected (the group is of another tenant, a
\* permission asked for is not the caller's), the permissions of every group
\* stay as they were.
C29_GrantWithinOwn ==
    [][LET call == gc["give_permissions"] IN
       /\ (call.pc = "save" /\ gc'["give_permissions"].pc = "return")
          => /\ GroupBusiness(call.id) = staff[call.caller].business
             /\ Range(groups'[call.id]) \subseteq Range(uperm[call.caller])
             /\ \A g \in DOMAIN groups \ {call.id} :
                   g \in DOMAIN groups' /\ groups'[g] = groups[g]
       /\ (call.pc # "save" /\ gc'["give_permissions"] # call) => groups' = groups
       /\ (gresp' # gresp /\ gresp'.op = "give_permissions") => groups' = groups]_vars

\* The owner has been refused a grant of view.plan, which the owner lacks, to
\* a group that holds what an earlier call granted.
C29_Witness ==
    /\ gresp = [op |-> "give_permissions", user |-> "owner", outcome |-> "403"]
    /\ "g1" \in DOMAIN groups
    /\ groups["g1"] = <<"p1", "p2">>
    /\ uperm["owner"] = <<"p1", "p2">>
    /\ "p3" \notin Range(uperm["owner"])

\* ------------------------------------------- claims: products of an order
\* C30: an ORDER request is inserted only when every product it names is a
\* product of the tenant of the service unit's area.
C30_ProductsOfTenant ==
    [][(CreateInsert /\ cr.data.type = "ORDER")
          => \A i \in DOMAIN cr.data.data :
                ProductBusiness(cr.data.data[i].id) = cr.area.business]_vars

====
